---- MODULE Spec2Model ----
(***************************************************************************)
(* Model of the voice_ai_study_companion core.                            *)
(*                                                                         *)
(*   Notes Store      backend/notes_store.py (ephemeral, _STORE) and       *)
(*                    backend/notes_repo.py (PostgresNotesRepo, durable),   *)
(*                    driven side by side by the same calls.               *)
(*                                                                         *)
(*   Generation      GeminiClient.generate_json of backend/gemini_client.py *)
(*   client          and of app/gemini_client.py: one call, step by step.  *)
(*                                                                         *)
(* Text is a sequence of one-character strings, so that str.strip() and    *)
(* str.lower() are computed, not assumed.                                  *)
(***************************************************************************)
EXTENDS Integers, Sequences, FiniteSets, TLC

VARIABLES
    mem,        \* notes_store._STORE: url -> NotesRecord (a partial map)
    db,         \* the notes table of PostgresNotesRepo: url -> row (a partial map)
    now,        \* the wall clock read by _now_iso() and by SQL now()
    nops,       \* number of Notes Store calls made so far
    last,       \* the last Notes Store call: its arguments and both outcomes
    appended,   \* history: per url, the items of the non-blank appends since the last reset
    allNonBlank, \* history: per url, TRUE while every append since the last reset was non-blank
    gen,        \* one generate_json call: the client's configuration, the locals of the
                \* call, its outcome, and the provider calls it has made
    sess,       \* the app's SessionStore: the TTLCache, the SessionState objects, the
                \* clock of the cache, the requests in flight, and the last call made
    call,       \* one call of a module-level function: its argument and its outcome
    schema,     \* the database PostgresNotesRepo.ensure_schema runs against: the notes
                \* table's columns and rows, and the runs of ensure_schema so far
    threads     \* the requests in flight in the worker threads of the backend: the
                \* position and locals of each inside its notes_store call

notesVars == <<mem, db, now, nops, last, appended, allNonBlank>>
vars == <<mem, db, now, nops, last, appended, allNonBlank, gen, sess, call, schema, threads>>

------------------------------------------------------------------------------
(* Bounds of the model *)

MaxOps == 3
MaxClock == 1

\* Session Cache: store calls per run and ticks of the cache timer
MaxCalls == 4
MaxTime == 2

\* app: requests started per run
MaxRequests == 3
MaxRuns == 2
MaxThreads == 2
MaxListed == 3

------------------------------------------------------------------------------
(* Text *)

Whitespace == {" ", "\t", "\n"}

RECURSIVE LStrip(_)
LStrip(s) ==
    IF s # <<>> /\ Head(s) \in Whitespace THEN LStrip(Tail(s)) ELSE s

RECURSIVE RStrip(_)
RStrip(s) ==
    IF s # <<>> /\ s[Len(s)] \in Whitespace THEN RStrip(SubSeq(s, 1, Len(s) - 1)) ELSE s

\* str.strip(): drop leading and trailing whitespace, keep the inside.
Strip(s) == RStrip(LStrip(s))

LowerChar(c) ==
    CASE c = "A" -> "a" [] c = "E" -> "e" [] c = "G" -> "g" [] c = "N" -> "n"
      [] c = "R" -> "r" [] c = "S" -> "s" [] c = "T" -> "t" [] c = "U" -> "u"
      [] OTHER -> c

\* str.lower()
Lower(s) == [i \in 1..Len(s) |-> LowerChar(s[i])]

txtUser == <<"u", "s", "e", "r">>
txtAgent == <<"a", "g", "e", "n", "t">>

\* The questions a caller passes: empty, whitespace only, plain, padded.
Texts == { <<>>, <<" ">>, <<"a">>, <<" ", "b", "\t">> }

\* The roles a caller passes.
Roles == { txtUser, <<"U", "s", "e", "r", " ">>, <<" ", "A", "G", "E", "N", "T">>,
           <<"t", "u", "t", "o", "r">>, <<>> }

\* The summaries, turn texts and quiz questions a caller passes.
ShortTexts == { <<" ">>, <<"\t", "a", " ", "b", " ">> }

\* The answers an appendQA caller passes.
Answers == { <<" ">>, <<"a", "\n">> }

\* (userAnswer, correctAnswer, explanation) of a quiz call; the schema defaults are "".
QuizRests == { <<<<>>, <<>>, <<>>>>, <<<<" ", "a">>, <<"b", " ">>, <<" ">>>> }

Urls == {"u", "u/"}

------------------------------------------------------------------------------
(* Ephemeral backend: backend/notes_store.py *)

\* NotesRecord(url=url) at clock value t
NotesRecord(u, t) ==
    [url |-> u, summary |-> <<>>, questions |-> <<>>, turns |-> <<>>,
     qa |-> <<>>, quizzes |-> <<>>, updated_at |-> t]

\* _STORE.get(url) or NotesRecord(url=url)
GetOrNew(store, u, t) == IF u \in DOMAIN store THEN store[u] ELSE NotesRecord(u, t)

\* _STORE[url] = rec
Put(store, u, rec) == [x \in DOMAIN store \cup {u} |-> IF x = u THEN rec ELSE store[x]]

reset_notes(store, u, t) == Put(store, u, NotesRecord(u, t))

\* set_summary that changes an existing record only
set_summary_NoUpsert(store, u, summary, t) ==
    IF u \in DOMAIN store
    THEN Put(store, u, [store[u] EXCEPT !.summary = Strip(summary), !.updated_at = t])
    ELSE store

set_summary(store, u, summary, t) ==
    LET rec == GetOrNew(store, u, t)
    IN  Put(store, u, [rec EXCEPT !.summary = Strip(summary), !.updated_at = t])

\* append_question putting the new question first
append_question_Prepend(store, u, question, t) ==
    LET rec == GetOrNew(store, u, t)
        q == Strip(question)
        qs == IF q # <<>> THEN <<q>> \o rec.questions ELSE rec.questions
    IN  Put(store, u, [rec EXCEPT !.questions = qs, !.updated_at = t])

append_question(store, u, question, t) ==
    LET rec == GetOrNew(store, u, t)
        q == Strip(question)
        qs == IF q # <<>> THEN Append(rec.questions, q) ELSE rec.questions
    IN  Put(store, u, [rec EXCEPT !.questions = qs, !.updated_at = t])

\* NormRole without the fallback to agent
NormRole_Keep(role) == Lower(Strip(role))

\* r = role.strip().lower(); anything but user/agent becomes agent
NormRole(role) ==
    LET r == Lower(Strip(role))
    IN  IF r \notin {txtUser, txtAgent} THEN txtAgent ELSE r

\* append_turn without the check of the stripped text
append_turn_NoBlankCheck(store, u, role, text, t) ==
    LET rec == GetOrNew(store, u, t)
        ts == Append(rec.turns, [role |-> NormRole(role), text |-> Strip(text)])
    IN  Put(store, u, [rec EXCEPT !.turns = ts, !.updated_at = t])

append_turn(store, u, role, text, t) ==
    LET rec == GetOrNew(store, u, t)
        r == NormRole(role)
        tx == Strip(text)
        ts == IF tx # <<>> THEN Append(rec.turns, [role |-> r, text |-> tx]) ELSE rec.turns
    IN  Put(store, u, [rec EXCEPT !.turns = ts, !.updated_at = t])

\* append_qa touching the record only when it appends
append_qa_TouchIfAppended(store, u, question, answer, t) ==
    LET rec == GetOrNew(store, u, t)
        q == Strip(question)
        a == Strip(answer)
    IN  IF q # <<>> /\ a # <<>>
        THEN Put(store, u, [rec EXCEPT !.qa = Append(rec.qa, [q |-> q, a |-> a]),
                                       !.updated_at = t])
        ELSE Put(store, u, rec)

append_qa(store, u, question, answer, t) ==
    LET rec == GetOrNew(store, u, t)
        q == Strip(question)
        a == Strip(answer)
        qas == IF q # <<>> /\ a # <<>> THEN Append(rec.qa, [q |-> q, a |-> a]) ELSE rec.qa
    IN  Put(store, u, [rec EXCEPT !.qa = qas, !.updated_at = t])

append_quiz(store, u, question, rest, t) ==
    LET rec == GetOrNew(store, u, t)
        q == Strip(question)
        item == [question |-> q, userAnswer |-> Strip(rest[1]),
                 correctAnswer |-> Strip(rest[2]), explanation |-> Strip(rest[3])]
        qzs == IF q # <<>> THEN Append(rec.quizzes, item) ELSE rec.quizzes
    IN  Put(store, u, [rec EXCEPT !.quizzes = qzs, !.updated_at = t])

None == [none |-> TRUE]

\* get_notes: the record, or None
get_notes(store, u) == IF u \in DOMAIN store THEN store[u] ELSE None

------------------------------------------------------------------------------
(* Durable backend: PostgresNotesRepo in backend/notes_repo.py *)

\* jsonb values of the array columns
JArray(items) == [t |-> "array", v |-> items]
JNull == [t |-> "null", v |-> <<>>]

\* COALESCE(x, d)
Coalesce(x, d) == IF x.t = "null" THEN d ELSE x

\* CASE WHEN x IS NULL OR jsonb_typeof(x) <> 'array' THEN '[]' ELSE x END
ArrayOrEmpty(x) == IF x.t = "null" \/ x.t # "array" THEN JArray(<<>>) ELSE x

\* jsonb || jsonb: arrays concatenate, a non-array operand counts as a one-element array
JsonbConcat(x, y) ==
    LET xs == IF x.t = "array" THEN x.v ELSE <<x>>
        ys == IF y.t = "array" THEN y.v ELSE <<y>>
    IN  JArray(xs \o ys)

\* the row INSERT ... VALUES (url, summary, '[]', '[]', '[]', '[]', now()) writes
NewRow(u, summary, t) ==
    [url |-> u, summary |-> summary, questions |-> JArray(<<>>), turns |-> JArray(<<>>),
     qa |-> JArray(<<>>), quizzes |-> JArray(<<>>), updated_at |-> t]

\* INSERT ... ON CONFLICT (url) DO NOTHING
InsertIfAbsent(tbl, u, t) ==
    IF u \in DOMAIN tbl THEN tbl ELSE Put(tbl, u, NewRow(u, <<>>, t))

Ok(tbl) == [err |-> "none", tbl |-> tbl]
Raise(e, tbl) == [err |-> e, tbl |-> tbl]

\* reset whose DO UPDATE leaves qa and quizzes out
PgReset_KeepsQA(tbl, u, t) ==
    Ok(IF u \in DOMAIN tbl
       THEN Put(tbl, u, [tbl[u] EXCEPT !.summary = <<>>, !.questions = JArray(<<>>),
                                       !.turns = JArray(<<>>), !.updated_at = t])
       ELSE Put(tbl, u, NewRow(u, <<>>, t)))

\* INSERT ... ON CONFLICT (url) DO UPDATE SET every column = EXCLUDED
PgReset(tbl, u, t) == Ok(Put(tbl, u, NewRow(u, <<>>, t)))

\* set_summary whose DO UPDATE sets every column = EXCLUDED, as reset does
PgSetSummary_AllColumns(tbl, u, summary, t) == Ok(Put(tbl, u, NewRow(u, Strip(summary), t)))

\* INSERT ... ON CONFLICT (url) DO UPDATE SET summary, updated_at
PgSetSummary(tbl, u, summary, t) ==
    LET s == Strip(summary)
    IN  Ok(IF u \in DOMAIN tbl
           THEN Put(tbl, u, [tbl[u] EXCEPT !.summary = s, !.updated_at = t])
           ELSE Put(tbl, u, NewRow(u, s, t)))

PgAppendQuestion(tbl, u, question, t) ==
    LET q == Strip(question)
        t1 == InsertIfAbsent(tbl, u, t)
        row == t1[u]
    IN  IF q = <<>> THEN Raise("ValueError", tbl)
        ELSE Ok(Put(t1, u, [row EXCEPT
                 !.questions = JsonbConcat(Coalesce(row.questions, JArray(<<>>)), JArray(<<q>>)),
                 !.updated_at = t]))

\* append_turn whose UPDATE sets turns to the new element alone
PgAppendTurn_Overwrite(tbl, u, role, text, t) ==
    LET tx == Strip(text)
        t1 == InsertIfAbsent(tbl, u, t)
    IN  IF tx = <<>> THEN Raise("ValueError", tbl)
        ELSE Ok(Put(t1, u, [t1[u] EXCEPT
                 !.turns = JArray(<<[role |-> NormRole(role), text |-> tx]>>),
                 !.updated_at = t]))

PgAppendTurn(tbl, u, role, text, t) ==
    LET r == NormRole(role)
        tx == Strip(text)
        t1 == InsertIfAbsent(tbl, u, t)
        row == t1[u]
    IN  IF tx = <<>> THEN Raise("ValueError", tbl)
        ELSE Ok(Put(t1, u, [row EXCEPT
                 !.turns = JsonbConcat(Coalesce(row.turns, JArray(<<>>)),
                                       JArray(<<[role |-> r, text |-> tx]>>)),
                 !.updated_at = t]))

\* no check of the stripped question or answer precedes the statements
PgAppendQA(tbl, u, question, answer, t) ==
    LET t1 == InsertIfAbsent(tbl, u, t)
        row == t1[u]
    IN  Ok(Put(t1, u, [row EXCEPT
             !.qa = JsonbConcat(ArrayOrEmpty(row.qa),
                                JArray(<<[q |-> Strip(question), a |-> Strip(answer)]>>)),
             !.updated_at = t]))

\* no check of the stripped question precedes the statements
PgAppendQuiz(tbl, u, question, rest, t) ==
    LET t1 == InsertIfAbsent(tbl, u, t)
        row == t1[u]
        item == [question |-> Strip(question), userAnswer |-> Strip(rest[1]),
                 correctAnswer |-> Strip(rest[2]), explanation |-> Strip(rest[3])]
    IN  Ok(Put(t1, u, [row EXCEPT
             !.quizzes = JsonbConcat(ArrayOrEmpty(row.quizzes), JArray(<<item>>)),
             !.updated_at = t]))

\* Python values as json.loads builds them
PyList(items) == [t |-> "list", v |-> items]
PyDict(pairs) == [t |-> "dict", v |-> pairs]
PyStr(chars) == [t |-> "str", v |-> chars]
PyInt(n) == [t |-> "int", v |-> n]
PyConst(name) == [t |-> "const", v |-> name]

\* the outcome of a parsing step: a value and the position after it, or a failure
Parsed(v, next) == [ok |-> TRUE, v |-> v, next |-> next]
Failed == [ok |-> FALSE, v |-> PyConst("None"), next |-> 0]

JsonWhitespace == {" ", "\t", "\n", "\r"}
Digits == <<"0", "1", "2", "3", "4", "5", "6", "7", "8", "9">>
IsDigit(c) == \E d \in 1..10 : Digits[d] = c
DigitValue(c) == (CHOOSE d \in 1..10 : Digits[d] = c) - 1

\* the first position at or after i that holds no JSON whitespace
RECURSIVE SkipWs(_, _)
SkipWs(s, i) == IF i <= Len(s) /\ s[i] \in JsonWhitespace THEN SkipWs(s, i + 1) ELSE i

StartsWith(s, i, word) ==
    /\ i + Len(word) - 1 <= Len(s)
    /\ SubSeq(s, i, i + Len(word) - 1) = word

\* the position of the closing quote of the string whose text starts at i, 0 if none
RECURSIVE ClosingQuote(_, _)
ClosingQuote(s, i) ==
    IF i > Len(s) \/ s[i] = "\\" THEN 0
    ELSE IF s[i] = "\"" THEN i ELSE ClosingQuote(s, i + 1)

\* the position after the digits that start at i
RECURSIVE DigitsEnd(_, _)
DigitsEnd(s, i) == IF i <= Len(s) /\ IsDigit(s[i]) THEN DigitsEnd(s, i + 1) ELSE i

RECURSIVE NumberOf(_)
NumberOf(ds) ==
    IF ds = <<>> THEN 0
    ELSE 10 * NumberOf(SubSeq(ds, 1, Len(ds) - 1)) + DigitValue(ds[Len(ds)])

\* the string whose closing quote is at q (0 when there is none)
StringUpTo(s, i, q) ==
    IF q = 0 THEN Failed ELSE Parsed(PyStr(SubSeq(s, i + 1, q - 1)), q + 1)

ParseString(s, i) == StringUpTo(s, i, ClosingQuote(s, i + 1))

\* the integer whose digits end before e
NumberUpTo(s, i, e) == Parsed(PyInt(NumberOf(SubSeq(s, i, e - 1))), e)

\* an integer without sign, fraction or exponent; a leading zero ends the number
ParseNumber(s, i) == NumberUpTo(s, i, IF s[i] = "0" THEN i + 1 ELSE DigitsEnd(s, i))

RECURSIVE ParseValue(_, _)
RECURSIVE ParseItems(_, _, _)
RECURSIVE ParsePairs(_, _, _)

\* after an item of an array, at position j: the end of the array or the next item
AfterItem(s, j, acc) ==
    IF j > Len(s) THEN Failed
    ELSE IF s[j] = "]" THEN Parsed(PyList(acc), j + 1)
    ELSE IF s[j] = "," THEN ParseItems(s, SkipWs(s, j + 1), acc)
    ELSE Failed

WithItem(s, item, acc) ==
    IF ~item.ok THEN Failed ELSE AfterItem(s, SkipWs(s, item.next), Append(acc, item.v))

\* the items of an array from position i on, acc being the items before
ParseItems(s, i, acc) == WithItem(s, ParseValue(s, i), acc)

\* after a member of an object, at position j: the end of the object or the next member
AfterPair(s, j, acc) ==
    IF j > Len(s) THEN Failed
    ELSE IF s[j] = "}" THEN Parsed(PyDict(acc), j + 1)
    ELSE IF s[j] = "," THEN ParsePairs(s, SkipWs(s, j + 1), acc)
    ELSE Failed

WithMember(s, k, item, acc) ==
    IF ~item.ok THEN Failed
    ELSE AfterPair(s, SkipWs(s, item.next), Append(acc, <<k, item.v>>))

\* after the key k of a member, at position c: the colon and the value
AfterKey(s, k, c, acc) ==
    IF c > Len(s) \/ s[c] # ":" THEN Failed
    ELSE WithMember(s, k, ParseValue(s, SkipWs(s, c + 1)), acc)

WithKey(s, key, acc) ==
    IF ~key.ok THEN Failed ELSE AfterKey(s, key.v.v, SkipWs(s, key.next), acc)

\* the members of an object from position i on, acc being the members before
ParsePairs(s, i, acc) ==
    IF i > Len(s) \/ s[i] # "\"" THEN Failed ELSE WithKey(s, ParseString(s, i), acc)

\* an array whose first non-blank position after the bracket is j
ArrayFrom(s, j) ==
    IF j <= Len(s) /\ s[j] = "]" THEN Parsed(PyList(<<>>), j + 1) ELSE ParseItems(s, j, <<>>)

\* an object whose first non-blank position after the brace is j
ObjectFrom(s, j) ==
    IF j <= Len(s) /\ s[j] = "}" THEN Parsed(PyDict(<<>>), j + 1) ELSE ParsePairs(s, j, <<>>)

\* the JSON value that starts at position i
ParseValue(s, i) ==
    IF i > Len(s) THEN Failed
    ELSE IF s[i] = "[" THEN ArrayFrom(s, SkipWs(s, i + 1))
    ELSE IF s[i] = "{" THEN ObjectFrom(s, SkipWs(s, i + 1))
    ELSE IF s[i] = "\"" THEN ParseString(s, i)
    ELSE IF IsDigit(s[i]) THEN ParseNumber(s, i)
    ELSE IF StartsWith(s, i, <<"n", "u", "l", "l">>) THEN Parsed(PyConst("None"), i + 4)
    ELSE IF StartsWith(s, i, <<"t", "r", "u", "e">>) THEN Parsed(PyConst("True"), i + 4)
    ELSE IF StartsWith(s, i, <<"f", "a", "l", "s", "e">>) THEN Parsed(PyConst("False"), i + 5)
    ELSE IF StartsWith(s, i, <<"N", "a", "N">>) THEN Parsed(PyConst("nan"), i + 3)
    ELSE IF StartsWith(s, i, <<"I", "n", "f", "i", "n", "i", "t", "y">>)
         THEN Parsed(PyConst("inf"), i + 8)
    ELSE Failed

\* the value r when nothing but whitespace follows it
WholeText(s, r) == IF r.ok /\ SkipWs(s, r.next) = Len(s) + 1 THEN r ELSE Failed

\* json.loads(s): one value between optional whitespace, anything else raises. The
\* decoder of the standard library also takes NaN and Infinity, which are no JSON, as
\* the floats nan and inf.
JsonLoads(s) == WholeText(s, ParseValue(s, SkipWs(s, 1)))

\* a byte that no UTF-8 text holds
BadByte == "\\xff"

\* bytes.decode("utf-8") of ASCII bytes: the same characters, or a failure
Utf8Decode(bytes) ==
    IF \E i \in 1..Len(bytes) : bytes[i] = BadByte THEN Failed
    ELSE Parsed(bytes, 0)

\* the values a driver can hand back for a cell
PyNone == [t |-> "null", v |-> <<>>]
PyText(chars) == [t |-> "str", v |-> chars]
PyBytes(bytes) == [t |-> "bytes", v |-> bytes]
PyObject(repr, raises) == [t |-> "object", v |-> [repr |-> repr, raises |-> raises]]

\* return parsed if isinstance(parsed, list) else [], and [] when json.loads raised
ListOrEmpty(parsed) == IF parsed.ok /\ parsed.v.t = "list" THEN parsed.v.v ELSE <<>>

\* the stripped text s: [] when blank, else what json.loads makes of it
StrippedToList(s) == IF s = <<>> THEN <<>> ELSE ListOrEmpty(JsonLoads(s))

\* the str branch of _coerce_json_list
CoerceText(chars) == StrippedToList(Strip(chars))

\* the bytes branch: [] when decoding raised, else the str branch
DecodedToList(d) == IF d.ok THEN CoerceText(d.v) ELSE <<>>

\* _coerce_json_list on what the driver hands back for a jsonb cell: None for NULL, a
\* list for an array, bytes or a str holding JSON text, or another Python object
CoerceJsonList(value) ==
    CASE value.t = "null" -> <<>>
      [] value.t = "array" -> value.v
      [] value.t = "bytes" -> DecodedToList(Utf8Decode(value.v))
      [] value.t = "str" -> CoerceText(value.v)
      [] OTHER -> IF value.v.raises THEN <<>> ELSE ListOrEmpty(JsonLoads(value.v.repr))

RowToRecord(row) ==
    [url |-> row.url, summary |-> row.summary,
     questions |-> CoerceJsonList(row.questions), turns |-> CoerceJsonList(row.turns),
     qa |-> CoerceJsonList(row.qa), quizzes |-> CoerceJsonList(row.quizzes),
     updated_at |-> row.updated_at]

\* PostgresNotesRepo.get: SELECT ... WHERE url = %s, then _row_to_record, or None
PgGet(tbl, u) == IF u \in DOMAIN tbl THEN RowToRecord(tbl[u]) ELSE None

------------------------------------------------------------------------------
(* The Notes Store calls, each applied to both backends *)

\* blank or whitespace-only, read off the characters
IsBlank(s) == \A i \in 1..Len(s) : s[i] \in Whitespace

\* the role is one appendTurn recognises: user or agent, whatever the case and padding
KnownRole(role) == Lower(Strip(role)) \in {txtUser, txtAgent}

NoArgs == [blank |-> FALSE, knownRole |-> TRUE]

\* what get returns, without updated_at; a missing record reads as the empty fields
EmptyFields ==
    [summary |-> <<>>, questions |-> <<>>, turns |-> <<>>, qa |-> <<>>, quizzes |-> <<>>]

Fields(rec) ==
    IF rec = None THEN EmptyFields
    ELSE [summary |-> rec.summary, questions |-> rec.questions, turns |-> rec.turns,
          qa |-> rec.qa, quizzes |-> rec.quizzes]

\* a url's record as a call finds it
Found(rec) ==
    IF rec = None THEN "absent" ELSE IF Fields(rec) = EmptyFields THEN "empty" ELSE "data"

Call(op, u, args, dbErr) ==
    [op |-> op, url |-> u, blank |-> args.blank, knownRole |-> args.knownRole,
     memFound |-> Found(get_notes(mem, u)), dbFound |-> Found(PgGet(db, u)),
     mem |-> "ok", db |-> IF dbErr = "none" THEN "ok" ELSE dbErr]

NoItems == [questions |-> <<>>, turns |-> <<>>, qa |-> <<>>, quizzes |-> <<>>]

\* history bookkeeping of an append to collection c of url u
Record(u, c, item, blank) ==
    /\ appended' = [appended EXCEPT ![u][c] = IF blank THEN @ ELSE Append(@, item)]
    /\ allNonBlank' = [allNonBlank EXCEPT ![u] = @ /\ ~blank]

\* no generate_json call is running
GenIdle == [pc |-> "idle"]

NotesInit ==
    /\ mem = [x \in {} |-> None]
    /\ db = [x \in {} |-> None]
    /\ now = 0
    /\ nops = 0
    /\ last = [op |-> "none", url |-> "u", blank |-> FALSE, knownRole |-> TRUE,
               memFound |-> "absent", dbFound |-> "absent", mem |-> "ok", db |-> "ok"]
    /\ appended = [u \in Urls |-> NoItems]
    /\ allNonBlank = [u \in Urls |-> TRUE]

\* no SessionStore call is being looked at
SessIdle == [pc |-> "idle"]

\* no function call is being looked at
CallIdle == [pc |-> "idle"]

\* ensure_schema is not looked at
SchemaIdle == [pc |-> "idle"]

\* no request is in flight
ThreadsIdle == [pc |-> "idle"]

Init == NotesInit /\ gen = GenIdle /\ sess = SessIdle /\ call = CallIdle /\ schema = SchemaIdle /\ threads = ThreadsIdle

Tick ==
    /\ now < MaxClock
    /\ now' = now + 1
    /\ UNCHANGED <<mem, db, nops, last, appended, allNonBlank, gen, sess, call, schema, threads>>

Reset(u) ==
    /\ nops < MaxOps
    /\ nops' = nops + 1
    /\ mem' = reset_notes(mem, u, now)
    /\ db' = PgReset(db, u, now).tbl
    /\ last' = Call("reset", u, NoArgs, "none")
    /\ appended' = [appended EXCEPT ![u] = NoItems]
    /\ allNonBlank' = [allNonBlank EXCEPT ![u] = TRUE]
    /\ UNCHANGED <<now, gen, sess, call, schema, threads>>

SetSummary(u, summary) ==
    /\ nops < MaxOps
    /\ nops' = nops + 1
    /\ mem' = set_summary(mem, u, summary, now)
    /\ db' = PgSetSummary(db, u, summary, now).tbl
    /\ last' = Call("setSummary", u, NoArgs, "none")
    /\ UNCHANGED <<now, appended, allNonBlank, gen, sess, call, schema, threads>>

AppendQuestion(u, question) ==
    LET r == PgAppendQuestion(db, u, question, now)
        blank == IsBlank(question)
    IN  /\ nops < MaxOps
        /\ nops' = nops + 1
        /\ mem' = append_question(mem, u, question, now)
        /\ db' = r.tbl
        /\ last' = Call("appendQuestion", u, [blank |-> blank, knownRole |-> TRUE], r.err)
        /\ Record(u, "questions", Strip(question), blank)
        /\ UNCHANGED <<now, gen, sess, call, schema, threads>>

AppendTurn(u, role, text) ==
    LET r == PgAppendTurn(db, u, role, text, now)
        blank == IsBlank(text)
    IN  /\ nops < MaxOps
        /\ nops' = nops + 1
        /\ mem' = append_turn(mem, u, role, text, now)
        /\ db' = r.tbl
        /\ last' = Call("appendTurn", u, [blank |-> blank, knownRole |-> KnownRole(role)], r.err)
        /\ Record(u, "turns", [role |-> NormRole(role), text |-> Strip(text)], blank)
        /\ UNCHANGED <<now, gen, sess, call, schema, threads>>

AppendQA(u, question, answer) ==
    LET r == PgAppendQA(db, u, question, answer, now)
        blank == IsBlank(question) \/ IsBlank(answer)
    IN  /\ nops < MaxOps
        /\ nops' = nops + 1
        /\ mem' = append_qa(mem, u, question, answer, now)
        /\ db' = r.tbl
        /\ last' = Call("appendQA", u, [blank |-> blank, knownRole |-> TRUE], r.err)
        /\ Record(u, "qa", [q |-> Strip(question), a |-> Strip(answer)], blank)
        /\ UNCHANGED <<now, gen, sess, call, schema, threads>>

AppendQuiz(u, question, rest) ==
    LET r == PgAppendQuiz(db, u, question, rest, now)
        blank == IsBlank(question)
        item == [question |-> Strip(question), userAnswer |-> Strip(rest[1]),
                 correctAnswer |-> Strip(rest[2]), explanation |-> Strip(rest[3])]
    IN  /\ nops < MaxOps
        /\ nops' = nops + 1
        /\ mem' = append_quiz(mem, u, question, rest, now)
        /\ db' = r.tbl
        /\ last' = Call("appendQuiz", u, [blank |-> blank, knownRole |-> TRUE], r.err)
        /\ Record(u, "quizzes", item, blank)
        /\ UNCHANGED <<now, gen, sess, call, schema, threads>>

\* get on both backends: reads only
Get(u) ==
    /\ nops < MaxOps
    /\ nops' = nops + 1
    /\ last' = Call("get", u, NoArgs, "none")
    /\ UNCHANGED <<mem, db, now, appended, allNonBlank, gen, sess, call, schema, threads>>

\* the url the calls of Spec address
CallUrls == {"u"}

Next ==
    \/ \E u \in CallUrls : Reset(u)
    \/ \E u \in CallUrls, s \in ShortTexts : SetSummary(u, s)
    \/ \E u \in CallUrls, q \in Texts : AppendQuestion(u, q)
    \/ \E u \in CallUrls, r \in Roles, x \in ShortTexts : AppendTurn(u, r, x)
    \/ \E u \in CallUrls, q \in Texts, a \in Answers : AppendQA(u, q, a)
    \/ \E u \in CallUrls, q \in ShortTexts, rest \in QuizRests : AppendQuiz(u, q, rest)
    \/ \E u \in CallUrls : Get(u)

\* the calls, at one instant
Spec == Init /\ [][Next]_vars

\* the calls on two urls that differ by a trailing slash, one payload per call
TwoUrlNext ==
    \/ \E u \in Urls : Reset(u)
    \/ \E u \in Urls : SetSummary(u, <<"\t", "a", " ", "b", " ">>)
    \/ \E u \in Urls, q \in {<<" ">>, <<"a">>} : AppendQuestion(u, q)
    \/ \E u \in Urls : AppendTurn(u, txtUser, <<"a">>)
    \/ \E u \in Urls : AppendQA(u, <<"a">>, <<"a", "\n">>)
    \/ \E u \in Urls : AppendQuiz(u, <<"a">>, <<<<>>, <<>>, <<>>>>)
    \/ \E u \in Urls : Get(u)
    \/ Tick

TwoUrlSpec == Init /\ [][TwoUrlNext]_vars

\* the calls, with time passing between them
TimedNext == Next \/ Tick

TimedSpec == Init /\ [][TimedNext]_vars

------------------------------------------------------------------------------
(* Generation client: GeminiClient of backend/gemini_client.py and app/gemini_client.py *)
(* A model name and an error text are cut into words, each word one element;          *)
(* "x in text" is the occurrence of x's words as a run of consecutive words.          *)

Contains(msg, pat) ==
    \E i \in 1..(Len(msg) - Len(pat) + 1) : SubSeq(msg, i, i + Len(pat) - 1) = pat

\* backend: is_model_not_found
IsModelNotFound(msg) ==
    /\ Contains(msg, <<"NOT_FOUND">>)
    /\ \/ Contains(msg, <<"was", "not", "found">>)
       \/ Contains(msg, <<"not", "found">>)
       \/ Contains(msg, <<"is", "not", "found">>)
    /\ \/ Contains(msg, <<"Publisher", "Model">>)
       \/ Contains(msg, <<"models/">>)
       \/ Contains(msg, <<"Call", "ListModels">>)

\* app: "Only retry on model lookup/access style failures"
AppRetryable(msg) ==
    /\ Contains(msg, <<"Publisher", "Model">>)
    /\ \/ Contains(msg, <<"NOT_FOUND">>)
       \/ Contains(msg, <<"was", "not", "found">>)
       \/ Contains(msg, <<"does", "not", "have", "access">>)

\* texts of provider errors
ErrTexts ==
    { <<"404", "NOT_FOUND", "models/", "gemini", "is", "not", "found", "for", "API",
        "version", "v1beta", "Call", "ListModels">>,
      <<"404", "NOT_FOUND", "Publisher", "Model", "was", "not", "found", "or", "your",
        "project", "does", "not", "have", "access">>,
      <<"404", "NOT_FOUND", "Requested", "entity", "was", "not", "found">>,
      <<"403", "PERMISSION_DENIED", "Publisher", "Model", "does", "not", "have", "access">>,
      <<"429", "RESOURCE_EXHAUSTED", "quota", "exceeded">> }

DefaultModel == <<"gemini-1.5-", "flash", "-002">>

\* the hardcoded fallbacks of generate_json
Fallbacks ==
    << <<"gemini-1.5-", "flash">>, <<"gemini-1.5-", "pro", "-002">>, <<"gemini-1.5-", "pro">> >>

\* candidates = [self.model, "gemini-1.5-flash", "gemini-1.5-pro-002", "gemini-1.5-pro"]
Candidates(model) == <<model>> \o Fallbacks

\* values of GEMINI_MODEL: unset (the default), a fallback's name, another name
ConfiguredModels == { DefaultModel, <<"gemini-1.5-", "flash">>, <<"gemini-2.0-", "flash">> }

\* payloads of the model-listing endpoint
Listings ==
    { <<>>,
      << [name |-> <<"models/", "gemini-2.0-", "flash">>,
          methods |-> {"generateContent", "countTokens"}],
         [name |-> <<"models/", "embedding-001">>, methods |-> {"embedContent"}],
         [name |-> <<"models/", "gemini-1.5-", "pro">>, methods |-> {"generateContent"}] >>,
      << [name |-> <<"models/", "tuned-x">>, methods |-> {"generateContent"}],
         [name |-> <<" ", "models/", "gemini-2.5-", "pro">>, methods |-> {"generateContent"}],
         [name |-> <<"gemini-2.5-", "flash">>, methods |-> {"generateContent"}],
         [name |-> <<>>, methods |-> {"generateContent"}] >> }

InSeq(x, seq) == \E i \in 1..Len(seq) : seq[i] = x

\* the names loop of _pick_working_models_from_list
RECURSIVE ListedNames(_)
ListedNames(models) ==
    IF models = <<>> THEN <<>>
    ELSE LET m == Head(models)
             stripped == Strip(m.name)
             name == IF stripped # <<>> /\ Head(stripped) = "models/"
                     THEN Tail(stripped) ELSE stripped
         IN  IF "generateContent" \in m.methods /\ name # <<>>
             THEN <<name>> \o ListedNames(Tail(models))
             ELSE ListedNames(Tail(models))

\* for n in names: if kw in n and n not in preferred: preferred.append(n)
RECURSIVE AddWithKeyword(_, _, _)
AddWithKeyword(names, kw, preferred) ==
    IF names = <<>> THEN preferred
    ELSE LET n == Head(names)
         IN  AddWithKeyword(Tail(names), kw,
                 IF InSeq(kw, n) /\ ~InSeq(n, preferred) THEN Append(preferred, n)
                 ELSE preferred)

\* for n in names: if n not in preferred: preferred.append(n)
RECURSIVE AddRest(_, _)
AddRest(names, preferred) ==
    IF names = <<>> THEN preferred
    ELSE LET n == Head(names)
         IN  AddRest(Tail(names),
                 IF ~InSeq(n, preferred) THEN Append(preferred, n) ELSE preferred)

\* _pick_working_models_from_list with the keywords in the order pro, flash
PickWorkingModels_ProFirst(models) ==
    LET names == ListedNames(models)
    IN  AddRest(names, AddWithKeyword(names, "flash", AddWithKeyword(names, "pro", <<>>)))

PickWorkingModels(models) ==
    LET names == ListedNames(models)
    IN  AddRest(names, AddWithKeyword(names, "pro", AddWithKeyword(names, "flash", <<>>)))

\* s with no slice taken
Take_All(s, n) == s

\* s[:n]
Take(s, n) == SubSeq(s, 1, IF Len(s) < n THEN Len(s) ELSE n)

\* [:10] of the names added per listing
MaxExtra == 10

\* [:500] of the raw text in the error
RawLimit == 500

NoText == [none |-> TRUE, s |-> <<>>]
Text(s) == [none |-> FALSE, s |-> s]

\* resp.text or ""
TextOrEmpty(resp) == IF resp.text.none THEN <<>> ELSE resp.text.s

\* the responses the provider gives for model m: parsed is a dict, is missing (with no
\* text, with text that is a JSON object, with a long text), or is no dict
Responses(m) ==
    { [parsed |-> [type |-> "dict", model |-> m], text |-> Text(<<"{", "}">>)],
      [parsed |-> [type |-> "none", model |-> m], text |-> NoText],
      [parsed |-> [type |-> "none", model |-> m], text |-> Text(<<"{", "}", "\n">>)],
      [parsed |-> [type |-> "none", model |-> m],
       text |-> Text(<<" ">> \o [k \in 1..(RawLimit + 1) |-> "x"] \o <<"\n">>)],
      [parsed |-> [type |-> "list", model |-> m], text |-> Text(<<"[", "]">>)] }

Return(v) == [kind |-> "return", value |-> v]
Throw(e) == [kind |-> "raise", error |-> e]

\* the statements after the loop, testing parsed for a list instead of a dict
AfterLoop_WrongType(resp, last_err) ==
    IF resp = None
    THEN Throw([type |-> "RuntimeError", what |-> "All model candidates failed", last |-> last_err])
    ELSE IF resp.parsed.type = "list"
         THEN Return(resp.parsed)
         ELSE Throw([type |-> "RuntimeError", what |-> "Model did not return parsed JSON",
                     raw |-> Take(Strip(TextOrEmpty(resp)), RawLimit)])

\* the statements after the loop, putting the whole text into the error
AfterLoop_NoTruncate(resp, last_err) ==
    IF resp = None
    THEN Throw([type |-> "RuntimeError", what |-> "All model candidates failed", last |-> last_err])
    ELSE IF resp.parsed.type = "dict"
         THEN Return(resp.parsed)
         ELSE Throw([type |-> "RuntimeError", what |-> "Model did not return parsed JSON",
                     raw |-> Strip(TextOrEmpty(resp))])

\* backend: the statements after the while loop
AfterLoop(resp, last_err) ==
    IF resp = None
    THEN Throw([type |-> "RuntimeError", what |-> "All model candidates failed", last |-> last_err])
    ELSE IF resp.parsed.type = "dict"
         THEN Return(resp.parsed)
         ELSE Throw([type |-> "RuntimeError", what |-> "Model did not return parsed JSON",
                     raw |-> Take(Strip(TextOrEmpty(resp)), RawLimit)])

\* app: the statements after the for loop
AppAfterLoop(resp, last_err) ==
    IF resp = None
    THEN Throw([type |-> "RuntimeError", what |-> "All model candidates failed", last |-> last_err])
    ELSE IF resp.parsed.type = "dict"
         THEN Return(resp.parsed)
         ELSE Throw([type |-> "RuntimeError", what |-> "Model did not return parsed JSON",
                     raw |-> Take(Strip(TextOrEmpty(resp)), RawLimit)])

\* the exception generate_content raises on the attempt at position at of candidates
Exc(msg, m, at) == [msg |-> msg, model |-> m, at |-> at]

\* a provider call as the history keeps it
Event(ev, m, cls, err) == [ev |-> ev, model |-> m, cls |-> cls, err |-> err]

ResponseClass(r) == IF r.parsed.type = "dict" THEN "parsed" ELSE "unparsed"

\* a generate_json call right after its locals are set
GenStart(client, mode, model, listing) ==
    [pc |-> "loop", client |-> client, mode |-> mode, model |-> model, listing |-> listing,
     candidates |-> Candidates(model), i |-> 0, tried |-> {}, last_err |-> None,
     resp |-> None, result |-> [kind |-> "none"], calls |-> <<>>]

\* backend: generate_content returned r; break, then the statements after the loop
OnResponse(g, m, r) ==
    [g EXCEPT !.i = @ + 1, !.tried = @ \cup {m}, !.resp = r,
              !.calls = Append(@, Event("generate", m, ResponseClass(r), None)),
              !.pc = "done", !.result = AfterLoop(r, g.last_err)]

\* the except branch keeping the first error in last_err instead of the latest
OnModelNotFound_KeepFirst(g, m, e, listed) ==
    LET extra == IF listed = None THEN <<>>
                 ELSE Take(PickWorkingModels(listed.models), MaxExtra)
        evs == IF g.mode = "api_key"
               THEN << Event("generate", m, "unavailable", None),
                       Event("list", m, IF listed = None THEN "failed" ELSE "ok", None) >>
               ELSE << Event("generate", m, "unavailable", None) >>
    IN  [g EXCEPT !.i = @ + 1, !.tried = @ \cup {m},
                  !.last_err = IF @ = None THEN e ELSE @,
                  !.candidates = IF g.mode = "api_key" THEN @ \o extra ELSE @,
                  !.calls = @ \o evs]

\* backend: generate_content raised e, a model-not-found error; listed is the outcome of
\* _list_models_api_key in api_key mode: the payload, or None when it raised
OnModelNotFound(g, m, e, listed) ==
    LET extra == IF listed = None THEN <<>>
                 ELSE Take(PickWorkingModels(listed.models), MaxExtra)
        evs == IF g.mode = "api_key"
               THEN << Event("generate", m, "unavailable", None),
                       Event("list", m, IF listed = None THEN "failed" ELSE "ok", None) >>
               ELSE << Event("generate", m, "unavailable", None) >>
    IN  [g EXCEPT !.i = @ + 1, !.tried = @ \cup {m}, !.last_err = e,
                  !.candidates = IF g.mode = "api_key" THEN @ \o extra ELSE @,
                  !.calls = @ \o evs]

\* the except branch going on to the next candidate on any error
OnFatal_Continue(g, m, e) ==
    [g EXCEPT !.i = @ + 1, !.tried = @ \cup {m}, !.last_err = e,
              !.calls = Append(@, Event("generate", m, "fatal", e))]

\* backend: generate_content raised e, any other error; raise
OnFatal(g, m, e) ==
    [g EXCEPT !.i = @ + 1, !.tried = @ \cup {m}, !.last_err = e,
              !.calls = Append(@, Event("generate", m, "fatal", e)),
              !.pc = "done", !.result = Throw(e)]

GenSkip ==
    /\ gen.pc = "loop" /\ gen.client = "backend"
    /\ gen.i < Len(gen.candidates)
    /\ gen.candidates[gen.i + 1] \in gen.tried
    /\ gen' = [gen EXCEPT !.i = @ + 1]
    /\ UNCHANGED <<notesVars, sess, call, schema, threads>>

GenRespond ==
    /\ gen.pc = "loop" /\ gen.client = "backend"
    /\ gen.i < Len(gen.candidates)
    /\ LET m == gen.candidates[gen.i + 1]
       IN  /\ m \notin gen.tried
           /\ \E r \in Responses(m) : gen' = OnResponse(gen, m, r)
    /\ UNCHANGED <<notesVars, sess, call, schema, threads>>

\* the exception _list_models_api_key raises (urlopen, json.loads)
ListingError == [msg |-> <<"URLError">>, model |-> <<>>, at |-> 0]

\* the model-not-found iteration without the inner try: a listing failure leaves the loop
GenModelNotFound_ListingRaises ==
    /\ gen.pc = "loop" /\ gen.client = "backend"
    /\ gen.i < Len(gen.candidates)
    /\ LET m == gen.candidates[gen.i + 1]
       IN  /\ m \notin gen.tried
           /\ \E msg \in ErrTexts :
                 /\ IsModelNotFound(msg) /\ gen.mode \in {"api_key", "vertex"}
                 /\ \E listed \in IF gen.mode = "api_key"
                                  THEN {None, [models |-> gen.listing]} ELSE {None} :
                       LET g == OnModelNotFound(gen, m, Exc(msg, m, gen.i + 1), listed)
                       IN  gen' = IF gen.mode = "api_key" /\ listed = None
                                  THEN [g EXCEPT !.pc = "done", !.last_err = ListingError,
                                                 !.result = Throw(ListingError)]
                                  ELSE g
    /\ UNCHANGED <<notesVars, sess, call, schema, threads>>

GenModelNotFound ==
    /\ gen.pc = "loop" /\ gen.client = "backend"
    /\ gen.i < Len(gen.candidates)
    /\ LET m == gen.candidates[gen.i + 1]
       IN  /\ m \notin gen.tried
           /\ \E msg \in ErrTexts :
                 /\ IsModelNotFound(msg) /\ gen.mode \in {"api_key", "vertex"}
                 /\ \E listed \in IF gen.mode = "api_key"
                                  THEN {None, [models |-> gen.listing]} ELSE {None} :
                       gen' = OnModelNotFound(gen, m, Exc(msg, m, gen.i + 1), listed)
    /\ UNCHANGED <<notesVars, sess, call, schema, threads>>

GenFatal ==
    /\ gen.pc = "loop" /\ gen.client = "backend"
    /\ gen.i < Len(gen.candidates)
    /\ LET m == gen.candidates[gen.i + 1]
       IN  /\ m \notin gen.tried
           /\ \E msg \in ErrTexts :
                 /\ ~(IsModelNotFound(msg) /\ gen.mode \in {"api_key", "vertex"})
                 /\ gen' = OnFatal(gen, m, Exc(msg, m, gen.i + 1))
    /\ UNCHANGED <<notesVars, sess, call, schema, threads>>

\* backend: the loop ends with resp still None
GenExhausted ==
    /\ gen.pc = "loop" /\ gen.client = "backend"
    /\ gen.i >= Len(gen.candidates)
    /\ gen' = [gen EXCEPT !.pc = "done", !.result = AfterLoop(gen.resp, gen.last_err)]
    /\ UNCHANGED <<notesVars, sess, call, schema, threads>>

\* app: generate_content returned r
AppOnResponse(g, m, r) ==
    [g EXCEPT !.i = @ + 1, !.resp = r,
              !.calls = Append(@, Event("generate", m, ResponseClass(r), None)),
              !.pc = "done", !.result = AppAfterLoop(r, g.last_err)]

\* app: generate_content raised e, a retryable error; continue
AppOnRetry(g, m, e) ==
    [g EXCEPT !.i = @ + 1, !.last_err = e,
              !.calls = Append(@, Event("generate", m, "unavailable", None))]

\* app: generate_content raised e, any other error; raise
AppOnFatal(g, m, e) ==
    [g EXCEPT !.i = @ + 1, !.last_err = e,
              !.calls = Append(@, Event("generate", m, "fatal", e)),
              !.pc = "done", !.result = Throw(e)]

AppRespond ==
    /\ gen.pc = "loop" /\ gen.client = "app"
    /\ gen.i < Len(gen.candidates)
    /\ LET m == gen.candidates[gen.i + 1]
       IN  \E r \in Responses(m) : gen' = AppOnResponse(gen, m, r)
    /\ UNCHANGED <<notesVars, sess, call, schema, threads>>

AppRetry ==
    /\ gen.pc = "loop" /\ gen.client = "app"
    /\ gen.i < Len(gen.candidates)
    /\ LET m == gen.candidates[gen.i + 1]
       IN  \E msg \in ErrTexts :
              /\ AppRetryable(msg)
              /\ gen' = AppOnRetry(gen, m, Exc(msg, m, gen.i + 1))
    /\ UNCHANGED <<notesVars, sess, call, schema, threads>>

AppFatal ==
    /\ gen.pc = "loop" /\ gen.client = "app"
    /\ gen.i < Len(gen.candidates)
    /\ LET m == gen.candidates[gen.i + 1]
       IN  \E msg \in ErrTexts :
              /\ ~AppRetryable(msg)
              /\ gen' = AppOnFatal(gen, m, Exc(msg, m, gen.i + 1))
    /\ UNCHANGED <<notesVars, sess, call, schema, threads>>

\* app: the loop ends with resp still None
AppExhausted ==
    /\ gen.pc = "loop" /\ gen.client = "app"
    /\ gen.i >= Len(gen.candidates)
    /\ gen' = [gen EXCEPT !.pc = "done", !.result = AppAfterLoop(gen.resp, gen.last_err)]
    /\ UNCHANGED <<notesVars, sess, call, schema, threads>>

\* one generate_json call of a constructed client, against any provider
GenInit ==
    /\ NotesInit
    /\ \E client \in {"backend", "app"}, mode \in {"api_key", "vertex"},
          model \in ConfiguredModels, listing \in Listings :
          gen = GenStart(client, mode, model, listing)
    /\ sess = SessIdle /\ call = CallIdle /\ schema = SchemaIdle /\ threads = ThreadsIdle

GenNext ==
    \/ GenSkip
    \/ GenRespond
    \/ GenModelNotFound
    \/ GenFatal
    \/ GenExhausted
    \/ AppRespond
    \/ AppRetry
    \/ AppFatal
    \/ AppExhausted

GenSpec == GenInit /\ [][GenNext]_vars

\* a listing with one generation-capable model more than a single extension takes
LongListing ==
    [k \in 1..(MaxExtra + 1) |->
        [name |-> <<"models/", "gemini-exp-", ToString(k)>>, methods |-> {"generateContent"}]]

\* one generate_json call of the backend client against a listing endpoint that is up,
\* the long listing among the payloads
ListInit ==
    /\ NotesInit
    /\ \E mode \in {"api_key", "vertex"}, model \in {DefaultModel, <<"gemini-1.5-", "flash">>},
          listing \in {LongListing} \cup {l \in Listings : Len(l) = 3} :
          gen = GenStart("backend", mode, model, listing)
    /\ sess = SessIdle /\ call = CallIdle /\ schema = SchemaIdle /\ threads = ThreadsIdle

\* a model-not-found iteration with the listing endpoint answering the query
ListModelNotFound ==
    /\ GenModelNotFound
    /\ \A k \in 1..Len(gen'.calls) : gen'.calls[k].cls # "failed"

ListNext ==
    \/ GenSkip
    \/ GenRespond
    \/ ListModelNotFound
    \/ GenFatal
    \/ GenExhausted

ListSpec == ListInit /\ [][ListNext]_vars

\* one generate_json call of the backend client in which every provider call returns or
\* raises and the listing endpoint gives the same payload each time, so that the loop
\* always takes its next step
WaterfallSpec == ListInit /\ [][ListNext]_vars /\ WF_vars(ListNext)

------------------------------------------------------------------------------
(* Session Cache: SessionStore of app/memory.py, a cachetools.TTLCache of SessionState *)

SessionIds == {"s1", "s2", "s3"}
\* page analyses, told apart by their summary
Pages == { [summary |-> "p1"], [summary |-> "p2"] }

\* SessionState()
FreshState == [difficulty |-> "beginner", page |-> None, turns |-> <<>>]

\* a new SessionStore(maxsize, ttl_seconds): an empty cache, no object created yet;
\* stamp counts the store calls, recent and written are history (the session ids in the
\* order of their last use, latest last, and per session id the time of its last write)
NewStore(maxsize, ttl) ==
    [pc |-> "store", maxsize |-> maxsize, ttl |-> ttl, time |-> 0,
     data |-> [k \in {} |-> 0], expires |-> [k \in {} |-> 0], order |-> <<>>,
     objs |-> [k \in {} |-> FreshState], ret |-> 0, stamp |-> 0,
     recent |-> <<>>, written |-> [k \in SessionIds |-> -1],
     inflight |-> {}, started |-> 0,
     last |-> [op |-> "none", sid |-> "none", arg |-> None, created |-> FALSE]]

Without(seq, keys) == SelectSeq(seq, LAMBDA k : k \notin keys)

Restrict(f, keys) == [k \in DOMAIN f \ keys |-> f[k]]

With(f, key, v) == [k \in DOMAIN f \cup {key} |-> IF k = key THEN v ELSE f[k]]

\* TTLCache.__contains__: the key has a link and the timer is before its expiry
Live(s, key) == key \in DOMAIN s.data /\ s.time < s.expires[key]

LiveKeys(s) == { k \in DOMAIN s.data : Live(s, k) }

\* TTLCache.expire(time): drop every item whose expiry is not after time
Expire(s) ==
    LET dead == { k \in DOMAIN s.data : ~(s.time < s.expires[k]) }
    IN  [s EXCEPT !.data = Restrict(@, dead), !.expires = Restrict(@, dead),
                  !.order = Without(@, dead)]

\* TTLCache.popitem: expire, then remove the first key of the links, which is the
\* least recently used one
PopItem(s) ==
    LET s1 == Expire(s)
        key == Head(s1.order)
    IN  [s1 EXCEPT !.data = Restrict(@, {key}), !.expires = Restrict(@, {key}),
                   !.order = Tail(@)]

\* Cache.__setitem__: while currsize + size > maxsize: self.popitem()
RECURSIVE MakeRoom(_)
MakeRoom(s) ==
    IF Cardinality(DOMAIN s.data) + 1 > s.maxsize
    THEN MakeRoom(PopItem(s)) ELSE s

\* TTLCache.__setitem__: expire, make room for a new key, store the value, and move
\* the key's link to the end with expiry time + ttl
CacheSet(s, key, v) ==
    LET s1 == Expire(s)
        s2 == IF key \notin DOMAIN s1.data THEN MakeRoom(s1) ELSE s1
    IN  [s2 EXCEPT !.data = With(@, key, v),
                   !.expires = With(@, key, s.time + s.ttl),
                   !.order = Append(Without(@, {key}), key)]

\* Cache.get leaving the links in the order of insertion
CacheGet_NoTouch(s, key) ==
    IF Live(s, key)
    THEN [store |-> s, value |-> s.data[key]]
    ELSE [store |-> s, value |-> 0]

\* Cache.get -> TTLCache.__getitem__: a live key is moved to the end of the links
\* (its expiry stays) and its value returned; otherwise None
CacheGet(s, key) ==
    IF Live(s, key)
    THEN [store |-> [s EXCEPT !.order = Append(Without(@, {key}), key)], value |-> s.data[key]]
    ELSE [store |-> s, value |-> 0]

\* the identity of the next object created
NewId(s) == CHOOSE i \in 1..(Cardinality(DOMAIN s.objs) + 1) :
                /\ i \notin DOMAIN s.objs
                /\ \A j \in 1..(i - 1) : j \in DOMAIN s.objs

\* the objects something still refers to: the values of the cache and the locals of the
\* requests in flight; the others are freed
Referenced(s) == { s.data[k] : k \in DOMAIN s.data } \cup { r.state : r \in s.inflight }

Collect(s) == [s EXCEPT !.objs = [i \in DOMAIN s.objs \cap Referenced(s) |-> s.objs[i]]]

\* SessionStore.get_or_create answering a fresh state without storing it
get_or_create_NoStore(s, session_id) ==
    LET g == CacheGet(s, session_id)
    IN  IF g.value = 0
        THEN [s EXCEPT !.objs = With(@, NewId(s), FreshState), !.ret = NewId(s)]
        ELSE [g.store EXCEPT !.ret = g.value]

\* SessionStore.get_or_create; ret is the SessionState object returned
get_or_create(s, session_id) ==
    LET g == CacheGet(s, session_id)
    IN  IF g.value = 0
        THEN LET id == NewId(s)
             IN  [CacheSet([s EXCEPT !.objs = With(@, id, FreshState)], session_id, id)
                     EXCEPT !.ret = id]
        ELSE [g.store EXCEPT !.ret = g.value]

\* SessionStore.set_page
set_page(s, session_id, page) ==
    LET s1 == get_or_create(s, session_id)
    IN  [s1 EXCEPT !.objs[s1.ret].page = page]

\* turns[-n:] of Python
LastSlice(turns, n) ==
    LET len == Len(turns)
        start == IF -n < 0 THEN (IF len - n < 0 THEN 0 ELSE len - n)
                 ELSE (IF -n > len THEN len ELSE -n)
    IN  SubSeq(turns, start + 1, len)

\* SessionStore.append_turn
SessionStore_append_turn(s, session_id, role, text, max_turns) ==
    LET s1 == get_or_create(s, session_id)
        turns == Append(s1.objs[s1.ret].turns, [role |-> role, text |-> text])
    IN  [s1 EXCEPT !.objs[s1.ret].turns =
                      IF Len(turns) > max_turns THEN LastSlice(turns, max_turns) ELSE turns]

\* history of a store call: the stamp, the order of use, the time of the last write of
\* the session, and the call itself; created says that get_or_create found no live entry
Called(s, s1, op, session_id, arg) ==
    [Collect(s1) EXCEPT !.stamp = s.stamp + 1,
               !.recent = Append(Without(@, {session_id}), session_id),
               !.written[session_id] =
                   IF op \in {"set_page", "append_turn"} \/ ~Live(s, session_id)
                   THEN s.time ELSE @,
               !.last = [op |-> op, sid |-> session_id, arg |-> arg,
                         created |-> ~Live(s, session_id)]]

\* the values of max_turns
MaxTurnsValues == 0..2

\* a turn as the callers pass it
TurnInputs == { [role |-> "user", text |-> "hi"], [role |-> "assistant", text |-> "ok"] }

\* the constructor arguments maxsize and ttl_seconds
MaxSizes == {1, 2}
Ttls == {1, 2}

\* max_turns: int = 12
DefaultMaxTurns == 12

\* a new store
StoreInit ==
    /\ NotesInit /\ gen = GenIdle /\ call = CallIdle /\ schema = SchemaIdle /\ threads = ThreadsIdle
    /\ \E maxsize \in MaxSizes, ttl \in Ttls : sess = NewStore(maxsize, ttl)

\* the timer of the cache advances
StoreTick ==
    /\ sess.pc = "store" /\ sess.time < MaxTime
    /\ sess' = [sess EXCEPT !.time = @ + 1]
    /\ UNCHANGED <<notesVars, gen, call, schema, threads>>

StoreGetOrCreate(session_id) ==
    /\ sess.pc = "store" /\ sess.stamp < MaxCalls
    /\ sess' = Called(sess, get_or_create(sess, session_id), "get_or_create", session_id, None)
    /\ UNCHANGED <<notesVars, gen, call, schema, threads>>

StoreSetPage(session_id, page) ==
    /\ sess.pc = "store" /\ sess.stamp < MaxCalls
    /\ sess' = Called(sess, set_page(sess, session_id, page), "set_page", session_id, page)
    /\ UNCHANGED <<notesVars, gen, call, schema, threads>>

StoreAppendTurn(session_id, turn, max_turns) ==
    /\ sess.pc = "store" /\ sess.stamp < MaxCalls
    /\ sess' = Called(sess,
                      SessionStore_append_turn(sess, session_id, turn.role, turn.text, max_turns),
                      "append_turn", session_id, [turn |-> turn, max_turns |-> max_turns])
    /\ UNCHANGED <<notesVars, gen, call, schema, threads>>

StoreNext ==
    \/ StoreTick
    \/ \E session_id \in SessionIds : StoreGetOrCreate(session_id)
    \/ \E session_id \in SessionIds, page \in Pages : StoreSetPage(session_id, page)
    \/ \E session_id \in SessionIds :
          StoreAppendTurn(session_id, [role |-> "user", text |-> "hi"], DefaultMaxTurns)

StoreSpec == StoreInit /\ [][StoreNext]_vars

\* append_turn calls on one session, with every max_turns
TurnsNext ==
    \/ StoreTick
    \/ \E turn \in TurnInputs, max_turns \in MaxTurnsValues :
          StoreAppendTurn("s1", turn, max_turns)

TurnsSpec == StoreInit /\ [][TurnsNext]_vars

------------------------------------------------------------------------------
(* The app's handlers of app/main.py on the module-level SessionStore *)

AppSessionIds == {"s1", "s2"}

\* class Difficulty
Difficulties == {"beginner", "intermediate", "advanced"}

\* the difficulty values the tutor answers with
AnsweredDifficulties == {"beginner", "intermediate"}

\* a request between its generate_json call and the answer: the handler's locals
Request(kind, session_id, state) == [kind |-> kind, sid |-> session_id, state |-> state]

\* history of a handler step; held is the object the handler's local state refers to
Handled(s, s1, op, session_id, arg, held) ==
    [Collect(s1) EXCEPT !.stamp = s.stamp + 1,
                        !.last = [op |-> op, sid |-> session_id, arg |-> arg,
                                  created |-> ~Live(s, session_id), held |-> held]]

\* page_analyze emptying the turns before the generate_json call
AnalyzeStart_ResetsFirst(session_id) ==
    /\ sess.pc = "app" /\ sess.started < MaxRequests
    /\ LET s1 == get_or_create(sess, session_id)
           s2 == [s1 EXCEPT !.inflight = @ \cup {Request("analyze", session_id, s1.ret)},
                            !.objs[s1.ret].turns = <<>>,
                            !.started = @ + 1]
       IN  sess' = Handled(sess, s2, "analyze_start", session_id, None, s1.ret)
    /\ UNCHANGED <<notesVars, gen, call, schema, threads>>

\* page_analyze up to the generate_json call
AnalyzeStart(session_id) ==
    /\ sess.pc = "app" /\ sess.started < MaxRequests
    /\ LET s1 == get_or_create(sess, session_id)
           s2 == [s1 EXCEPT !.inflight = @ \cup {Request("analyze", session_id, s1.ret)},
                            !.started = @ + 1]
       IN  sess' = Handled(sess, s2, "analyze_start", session_id, None, s1.ret)
    /\ UNCHANGED <<notesVars, gen, call, schema, threads>>

\* page_analyze after generate_json returned and the answer validated:
\* store.set_page(req.sessionId, page); state.turns = []
AnalyzeOk(r, page) ==
    /\ sess.pc = "app" /\ r \in sess.inflight /\ r.kind = "analyze"
    /\ LET s1 == set_page(sess, r.sid, page)
           s2 == [s1 EXCEPT !.objs[r.state].turns = <<>>, !.inflight = @ \ {r}]
       IN  sess' = Handled(sess, s2, "analyze_ok", r.sid, page, r.state)
    /\ UNCHANGED <<notesVars, gen, call, schema, threads>>

\* page_analyze or conversation_turn after the generation or the validation raised:
\* HTTPException(500)
RequestFails(r) ==
    /\ sess.pc = "app" /\ r \in sess.inflight
    /\ sess' = Handled(sess, [sess EXCEPT !.inflight = @ \ {r}], "failed", r.sid, None, r.state)
    /\ UNCHANGED <<notesVars, gen, call, schema, threads>>

\* conversation_turn appending the user turn before it looks at state.page
TurnStart_AppendsFirst(session_id, text) ==
    /\ sess.pc = "app" /\ sess.started < MaxRequests
    /\ LET s1 == SessionStore_append_turn(sess, session_id, "user", text, DefaultMaxTurns)
           state == s1.ret
       IN  IF s1.objs[state].page = None
           THEN sess' = Handled(sess, [s1 EXCEPT !.started = @ + 1],
                                "clarify", session_id, s1.objs[state].difficulty, state)
           ELSE LET s3 == [s1 EXCEPT !.inflight = @ \cup {Request("turn", session_id, state)},
                                     !.started = @ + 1]
                IN  sess' = Handled(sess, s3, "turn_start", session_id, None, state)
    /\ UNCHANGED <<notesVars, gen, call, schema, threads>>

\* conversation_turn up to the generate_json call; without a page it answers CLARIFY
\* (the history keeps the difficulty of the answer)
TurnStart(session_id, text) ==
    /\ sess.pc = "app" /\ sess.started < MaxRequests
    /\ LET s1 == get_or_create(sess, session_id)
           state == s1.ret
       IN  IF s1.objs[state].page = None
           THEN sess' = Handled(sess, [s1 EXCEPT !.started = @ + 1],
                                "clarify", session_id, s1.objs[state].difficulty, state)
           ELSE LET s2 == SessionStore_append_turn(s1, session_id, "user", text, DefaultMaxTurns)
                    s3 == [s2 EXCEPT !.inflight = @ \cup {Request("turn", session_id, state)},
                                     !.started = @ + 1]
                IN  sess' = Handled(sess, s3, "turn_start", session_id, None, state)
    /\ UNCHANGED <<notesVars, gen, call, schema, threads>>

\* conversation_turn after generate_json returned and the answer validated:
\* state.difficulty = resp.difficulty; store.append_turn(..., "assistant", ...)
TurnOk(r, difficulty, text) ==
    /\ sess.pc = "app" /\ r \in sess.inflight /\ r.kind = "turn"
    /\ LET s1 == [sess EXCEPT !.objs[r.state].difficulty = difficulty]
           s2 == SessionStore_append_turn(s1, r.sid, "assistant", text, DefaultMaxTurns)
           s3 == [s2 EXCEPT !.inflight = @ \ {r}]
       IN  sess' = Handled(sess, s3, "turn_ok", r.sid, difficulty, r.state)
    /\ UNCHANGED <<notesVars, gen, call, schema, threads>>

\* the timer of the cache advances
AppTick ==
    /\ sess.pc = "app" /\ sess.time < MaxTime
    /\ sess' = [sess EXCEPT !.time = @ + 1]
    /\ UNCHANGED <<notesVars, gen, call, schema, threads>>

\* store = SessionStore()
AppInit ==
    /\ NotesInit /\ gen = GenIdle /\ call = CallIdle /\ schema = SchemaIdle /\ threads = ThreadsIdle
    /\ \E maxsize \in MaxSizes, ttl \in Ttls :
          sess = [NewStore(maxsize, ttl) EXCEPT !.pc = "app"]

AppNext ==
    \/ AppTick
    \/ \E session_id \in AppSessionIds : AnalyzeStart(session_id)
    \/ \E r \in sess.inflight, page \in Pages : AnalyzeOk(r, page)
    \/ \E r \in sess.inflight : RequestFails(r)
    \/ \E session_id \in AppSessionIds : TurnStart(session_id, "hi")
    \/ \E r \in sess.inflight, difficulty \in AnsweredDifficulties : TurnOk(r, difficulty, "ok")

AppSpec == AppInit /\ [][AppNext]_vars

------------------------------------------------------------------------------
(* The read path of the array columns: _coerce_json_list and _row_to_record *)

\* the decimal digits of a number below 100
Decimal(n) ==
    IF n < 10 THEN <<Digits[n + 1]>> ELSE <<Digits[(n \div 10) + 1], Digits[(n % 10) + 1]>>

RECURSIVE JsonDumps(_, _)
RECURSIVE JoinDumps(_, _)
RECURSIVE JoinPairs(_, _)

\* the texts of the items, separated by sep
JoinDumps(items, sep) ==
    IF items = <<>> THEN <<>>
    ELSE IF Len(items) = 1 THEN JsonDumps(items[1], sep)
    ELSE JsonDumps(items[1], sep) \o sep \o JoinDumps(Tail(items), sep)

JoinPairs(pairs, sep) ==
    IF pairs = <<>> THEN <<>>
    ELSE LET one == <<"\"">> \o pairs[1][1] \o <<"\"", ":", " ">> \o JsonDumps(pairs[1][2], sep)
         IN  IF Len(pairs) = 1 THEN one ELSE one \o sep \o JoinPairs(Tail(pairs), sep)

\* the JSON text of a value, as the database or json.dumps writes it
JsonDumps(v, sep) ==
    CASE v.t = "list" -> <<"[">> \o JoinDumps(v.v, sep) \o <<"]">>
      [] v.t = "dict" -> <<"{">> \o JoinPairs(v.v, sep) \o <<"}">>
      [] v.t = "str" -> <<"\"">> \o v.v \o <<"\"">>
      [] v.t = "int" -> Decimal(v.v)
      [] OTHER -> IF v.v = "None" THEN <<"n", "u", "l", "l">>
                  ELSE IF v.v = "True" THEN <<"t", "r", "u", "e">>
                  ELSE <<"f", "a", "l", "s", "e">>

\* items of the array columns: a question, a turn, and a few other JSON values
JsonItems ==
    { PyStr(<<"q">>), PyDict(<< <<<<"role">>, PyStr(<<"user">>)>>, <<<<"text">>, PyStr(<<"hi", " ", "!">>)>> >>),
      PyInt(0), PyInt(42), PyConst("None"), PyList(<<>>), PyList(<<PyInt(7)>>), PyDict(<<>>) }

\* the arrays of at most two items
JsonArrays ==
    {PyList(<<>>)} \cup { PyList(<<a>>) : a \in JsonItems }
                  \cup { PyList(<<a, b>>) : a \in JsonItems, b \in JsonItems }

\* JSON values that are no array
JsonOthers == { v \in JsonItems : v.t # "list" } \cup { PyConst("True"), PyConst("False") }

Paddings == { <<>>, <<" ">>, <<"\n", "\t">> }
Separators == { <<",">>, <<",", " ">> }

\* texts that are no JSON
Malformed ==
    { <<"[">>, <<"]">>, <<"[", "1", ",", "]">>, <<"[", "1", " ", "2", "]">>,
      <<"[", "1", "]", "x">>, <<"[", "\"", "q", "]">>, <<"{", "'", "q", "'", ":", "1", "}">>,
      <<"n", "u", "l">>, <<"[", "0", "1", "]">>, <<"[", "]", "[", "]">>, <<"{", "\"", "k", "\"", "}">> }

\* texts that are no JSON either: RFC 8259 has no literal for these numbers
NonNumbers ==
    { <<"[", "N", "a", "N", "]">>, <<"[", "1", ",", " ", "I", "n", "f", "i", "n", "i", "t", "y", "]">> }

\* what str() gives for driver objects that are neither list, bytes nor str
Reprs == { <<"[", "1", "]">>, <<"7">>, <<"(", "1", ",", " ", "2", ")">>, <<"<", "o", "b", "j", ">">> }

Blanks == { <<>>, <<" ">>, <<"\n", " ", "\t">> }

\* an argument of _coerce_json_list with what it stands for: want is the list the
\* claim expects for it
Input(value, about, want) == [value |-> value, about |-> about, want |-> want]

CoerceInputs ==
    {Input(PyNone, "NULL", <<>>)}
    \cup { Input(JArray(a.v), "native list", a.v) : a \in JsonArrays }
    \cup { Input(PyText(p \o JsonDumps(a, sep) \o q), "text of an array", a.v) :
             a \in JsonArrays, sep \in Separators, p \in Paddings, q \in {<<>>, <<"\n">>} }
    \cup { Input(PyBytes(JsonDumps(a, sep) \o q), "bytes of an array", a.v) :
             a \in JsonArrays, sep \in Separators, q \in {<<>>, <<"\n">>} }
    \cup { Input(PyText(p \o JsonDumps(v, <<",">>)), "text of no array", <<>>) :
             v \in JsonOthers, p \in Paddings }
    \cup { Input(PyBytes(JsonDumps(v, <<",">>)), "bytes of no array", <<>>) : v \in JsonOthers }
    \cup { Input(PyText(t), "blank text", <<>>) : t \in Blanks }
    \cup { Input(PyBytes(t), "blank bytes", <<>>) : t \in Blanks }
    \cup { Input(PyText(t), "malformed text", <<>>) : t \in Malformed }
    \cup { Input(PyBytes(t), "malformed bytes", <<>>) : t \in Malformed }
    \cup { Input(PyText(t), "malformed text", <<>>) : t \in NonNumbers }
    \cup { Input(PyBytes(t), "malformed bytes", <<>>) : t \in NonNumbers }
    \cup { Input(PyObject(t, raises), "driver object", <<>>) : t \in Reprs, raises \in BOOLEAN }
    \cup { Input(PyBytes(<<BadByte>> \o JsonDumps(a, <<",">>)), "undecodable bytes", <<>>) :
             a \in {PyList(<<>>), PyList(<<PyStr(<<"q">>)>>)} }
    \cup { Input(PyBytes(JsonDumps(a, <<",">>) \o <<BadByte>>), "undecodable bytes", <<>>) :
             a \in {PyList(<<>>), PyList(<<PyStr(<<"q">>)>>)} }

\* _coerce_json_list is about to be called with one of the inputs
CoerceInit ==
    /\ NotesInit /\ gen = GenIdle /\ sess = SessIdle
    /\ schema = SchemaIdle /\ threads = ThreadsIdle
    /\ \E x \in CoerceInputs : call = [pc |-> "called", input |-> x]

\* _coerce_json_list(value) returns
CoerceReturns ==
    /\ call.pc = "called"
    /\ call' = [pc |-> "done", input |-> call.input, fn |-> "_coerce_json_list",
                result |-> Return(CoerceJsonList(call.input.value))]
    /\ UNCHANGED <<notesVars, gen, sess, schema, threads>>

\* _row_to_record of a row whose questions cell is the value returns
RowReturns ==
    /\ call.pc = "called"
    /\ call' = [pc |-> "done", input |-> call.input, fn |-> "_row_to_record",
                result |-> Return(RowToRecord(
                              [NewRow("u", <<>>, 0) EXCEPT !.questions = call.input.value,
                                                          !.qa = JNull]))]
    /\ UNCHANGED <<notesVars, gen, sess, schema, threads>>

CoerceNext == CoerceReturns \/ RowReturns

CoerceSpec == CoerceInit /\ [][CoerceNext]_vars

------------------------------------------------------------------------------
(* Schema reconciliation: PostgresNotesRepo.ensure_schema *)

\* the four array-valued columns of the notes table
ArrayColumns == {"questions", "turns", "qa", "quizzes"}

\* what a deployment may have made of such a column
ColumnTypes == {"absent", "jsonb", "json", "text"}

\* cells: SQL NULL is JNull, a JSON array is JArray; a JSON value that is no array,
\* a text value, and the cell of a column the table does not have
JObject == [t |-> "object", v |-> <<>>]
SqlText(chars) == [t |-> "text", v |-> <<chars>>]
NoCell == [t |-> "none", v |-> <<>>]

\* text values: blank, malformed, the text of an array and of an object
TextValues ==
    { <<>>, <<" ">>, <<"[">>, <<"[", "\"", "q", "\"", "]">>, <<"{", "}">> }

\* the cells a column of the type can hold
CellsOf(type) ==
    CASE type = "absent" -> {NoCell}
      [] type = "text" -> {JNull} \cup { SqlText(x) : x \in TextValues }
      [] OTHER -> {JNull, JArray(<<>>), JArray(<< <<"q">> >>), JObject}

NoTable == [exists |-> FALSE, types |-> [c \in ArrayColumns |-> "absent"], rows |-> <<>>]

\* CREATE TABLE IF NOT EXISTS notes (...)
CreateTable(tbl) ==
    IF tbl.exists THEN tbl
    ELSE [exists |-> TRUE, types |-> [c \in ArrayColumns |-> "jsonb"], rows |-> <<>>]

\* the four ALTER TABLE notes ADD COLUMN IF NOT EXISTS c JSONB NOT NULL DEFAULT '[]'
AddColumns(tbl) ==
    [tbl EXCEPT
       !.types = [c \in ArrayColumns |-> IF tbl.types[c] = "absent" THEN "jsonb" ELSE tbl.types[c]],
       !.rows = [k \in DOMAIN tbl.rows |->
                   [c \in DOMAIN tbl.rows[k] |->
                      IF c \in ArrayColumns /\ tbl.types[c] = "absent"
                      THEN JArray(<<>>) ELSE tbl.rows[k][c]]]]

\* The DO block runs ALTER COLUMN c TYPE jsonb USING (CASE ...) for each column whose
\* type is not jsonb. The USING expression is analysed with c at its declared type
\* before any row is read, and it has no type: for a text column the branch
\* THEN c is text among jsonb branches, for a json column btrim(c) names no
\* function and THEN c is json among jsonb branches. The statement raises.
CoercionRaises(tbl) == \E c \in ArrayColumns : tbl.types[c] # "jsonb"

\* the four UPDATE notes SET c = '[]' WHERE c IS NULL
HealNulls(tbl) ==
    [tbl EXCEPT !.rows = [k \in DOMAIN tbl.rows |->
        [c \in DOMAIN tbl.rows[k] |->
           IF c \in ArrayColumns /\ tbl.rows[k][c].t = "null"
           THEN JArray(<<>>) ELSE tbl.rows[k][c]]]]

\* the UPDATEs of the heal step with no WHERE clause
HealShapes_EveryRow(tbl) ==
    [tbl EXCEPT !.rows = [k \in DOMAIN tbl.rows |->
        [c \in DOMAIN tbl.rows[k] |->
           IF c \in ArrayColumns THEN JArray(<<>>) ELSE tbl.rows[k][c]]]]

\* the four UPDATE notes SET c = '[]' WHERE jsonb_typeof(c) <> 'array'
HealShapes(tbl) ==
    [tbl EXCEPT !.rows = [k \in DOMAIN tbl.rows |->
        [c \in DOMAIN tbl.rows[k] |->
           IF c \in ArrayColumns /\ tbl.rows[k][c].t \notin {"array", "null"}
           THEN JArray(<<>>) ELSE tbl.rows[k][c]]]]

\* ensure_schema whose CREATE TABLE has no IF NOT EXISTS
ensure_schema_PlainCreate(tbl) ==
    IF tbl.exists \/ CoercionRaises(AddColumns(CreateTable(tbl)))
    THEN Raise("ProgrammingError", tbl)
    ELSE Ok(HealShapes(HealNulls(AddColumns(CreateTable(tbl)))))

\* ensure_schema in its transaction: an error rolls everything back
ensure_schema(tbl) ==
    IF CoercionRaises(AddColumns(CreateTable(tbl))) THEN Raise("ProgrammingError", tbl)
    ELSE Ok(HealShapes(HealNulls(AddColumns(CreateTable(tbl)))))

\* url TEXT PRIMARY KEY, summary TEXT NOT NULL
Columns == {"url", "summary"} \cup ArrayColumns

\* the summaries of the row
Summaries == { SqlText(<<>>), SqlText(<<"s">>) }

\* the row of url u whose cells are the given ones
Row(summary, questions, turns, qa, quizzes) ==
    [c \in Columns |->
       CASE c = "url" -> SqlText(<<"u">>) [] c = "summary" -> summary
         [] c = "questions" -> questions [] c = "turns" -> turns [] c = "qa" -> qa
         [] OTHER -> quizzes]

Table(types, rows) == [exists |-> TRUE, types |-> types, rows |-> rows]

\* ensure_schema has not run yet against the table
Deployed(tbl) == [pc |-> "db", table |-> tbl, first |-> tbl, runs |-> 0, result |-> "none"]

\* the shapes a pre-existing deployment can be in: no table, or a table with any
\* types of the array columns and no row or one row of cells of these types
SchemaInit ==
    /\ NotesInit /\ gen = GenIdle /\ sess = SessIdle /\ call = CallIdle
    /\ threads = ThreadsIdle
    /\ \E types \in [ArrayColumns -> ColumnTypes] :
          \/ schema = Deployed(NoTable)
          \/ schema = Deployed(Table(types, <<>>))
          \/ \E questions \in CellsOf(types["questions"]), turns \in CellsOf(types["turns"]),
                 qa \in CellsOf(types["qa"]), quizzes \in CellsOf(types["quizzes"]),
                 summary \in Summaries :
                schema = Deployed(Table(types, <<Row(summary, questions, turns, qa, quizzes)>>))

\* a run of ensure_schema that commits
EnsureSchemaOk ==
    /\ schema.pc = "db" /\ schema.runs < MaxRuns
    /\ ensure_schema(schema.table).err = "none"
    /\ schema' = [schema EXCEPT !.table = ensure_schema(schema.table).tbl,
                                 !.runs = @ + 1, !.result = "ok"]
    /\ UNCHANGED <<notesVars, gen, sess, call, threads>>

\* a run of ensure_schema that raises
EnsureSchemaFails ==
    /\ schema.pc = "db" /\ schema.runs < MaxRuns
    /\ ensure_schema(schema.table).err # "none"
    /\ schema' = [schema EXCEPT !.table = ensure_schema(schema.table).tbl,
                                 !.runs = @ + 1, !.result = ensure_schema(schema.table).err]
    /\ UNCHANGED <<notesVars, gen, sess, call, threads>>

SchemaNext == EnsureSchemaOk \/ EnsureSchemaFails

SchemaSpec == SchemaInit /\ [][SchemaNext]_vars

------------------------------------------------------------------------------
(* Requests in flight on the ephemeral backend. The handlers of backend/main.py *)
(* are plain functions, which the server runs in worker threads: the statements *)
(* of two notes_store calls interleave. Records are objects: _STORE holds        *)
(* references, and rec.questions.append changes the object it is called on.     *)

Workers == 1..MaxThreads

\* the question or the turn text request k carries
Payload(k) == <<"q", ToString(k)>>

\* the item the request appends to its collection
ItemOf(op, k) ==
    IF op = "appendTurn" THEN [role |-> txtUser, text |-> Payload(k)] ELSE Payload(k)

CollectionOf(op) == IF op = "appendTurn" THEN "turns" ELSE "questions"

\* a NotesRecord object as it is constructed
NewObject == [questions |-> <<>>, turns |-> <<>>]

\* the smallest reference not in use
NewRef(heap) == CHOOSE r \in 1..(MaxThreads + 1) : r \notin DOMAIN heap

\* the requests arrive: the url has a record or none, each request is an
\* append_question or an append_turn on the url
RaceInit ==
    /\ NotesInit /\ gen = GenIdle /\ sess = SessIdle /\ call = CallIdle
    /\ schema = SchemaIdle
    /\ \E known \in BOOLEAN, ops \in [Workers -> {"appendQuestion", "appendTurn"}] :
          threads = [pc |-> "serving",
                     store |-> IF known THEN [u \in {"u"} |-> 1] ELSE [u \in {} |-> 1],
                     heap |-> IF known THEN [r \in {1} |-> NewObject] ELSE [r \in {} |-> NewObject],
                     known |-> known,
                     at |-> [k \in Workers |-> "called"],
                     op |-> ops,
                     rec |-> [k \in Workers |-> 0]]

\* rec = _STORE.get(url) or NotesRecord(url=url)
ReadRecord(k) ==
    /\ threads.pc = "serving" /\ threads.at[k] = "called"
    /\ threads' =
          IF "u" \in DOMAIN threads.store
          THEN [threads EXCEPT !.at[k] = "read", !.rec[k] = threads.store["u"]]
          ELSE [threads EXCEPT !.at[k] = "read", !.rec[k] = NewRef(threads.heap),
                               !.heap = With(threads.heap, NewRef(threads.heap), NewObject)]
    /\ UNCHANGED <<notesVars, gen, sess, call, schema>>

\* rec.questions.append(q) / rec.turns.append({...}); rec.touch()
AppendItem(k) ==
    /\ threads.pc = "serving" /\ threads.at[k] = "read"
    /\ threads' = [threads EXCEPT
                     !.at[k] = "appended",
                     !.heap[threads.rec[k]][CollectionOf(threads.op[k])] =
                         Append(@, ItemOf(threads.op[k], k))]
    /\ UNCHANGED <<notesVars, gen, sess, call, schema>>

\* _STORE[url] = rec; return rec
WriteBack(k) ==
    /\ threads.pc = "serving" /\ threads.at[k] = "appended"
    /\ threads' = [threads EXCEPT !.at[k] = "returned",
                                  !.store = With(threads.store, "u", threads.rec[k])]
    /\ UNCHANGED <<notesVars, gen, sess, call, schema>>

RaceNext == \E k \in Workers : ReadRecord(k) \/ AppendItem(k) \/ WriteBack(k)

RaceSpec == RaceInit /\ [][RaceNext]_vars

\* GET /notes in flight next to the appends: reader is the position of notes_get,
\* found what its notes_repo.get(url) answered
NotesGetInit ==
    /\ NotesInit /\ gen = GenIdle /\ sess = SessIdle /\ call = CallIdle
    /\ schema = SchemaIdle
    /\ \E known \in BOOLEAN, ops \in [Workers -> {"appendQuestion", "appendTurn"}] :
          threads = [pc |-> "serving",
                     store |-> IF known THEN [u \in {"u"} |-> 1] ELSE [u \in {} |-> 1],
                     heap |-> IF known THEN [r \in {1} |-> NewObject] ELSE [r \in {} |-> NewObject],
                     known |-> known,
                     at |-> [k \in Workers |-> "called"],
                     op |-> ops,
                     rec |-> [k \in Workers |-> 0],
                     reader |-> "called", found |-> FALSE]

\* rec = notes_repo.get(url)
NotesGetLookup ==
    /\ threads.pc = "serving" /\ threads.reader = "called"
    /\ threads' = [threads EXCEPT !.reader = "looked", !.found = "u" \in DOMAIN threads.store]
    /\ UNCHANGED <<notesVars, gen, sess, call, schema>>

\* if not rec: rec = notes_repo.reset(url), which stores a new NotesRecord; return
NotesGetReset ==
    /\ threads.pc = "serving" /\ threads.reader = "looked" /\ ~threads.found
    /\ threads' = [threads EXCEPT !.reader = "returned",
                                  !.heap = With(threads.heap, NewRef(threads.heap), NewObject),
                                  !.store = With(threads.store, "u", NewRef(threads.heap))]
    /\ UNCHANGED <<notesVars, gen, sess, call, schema>>

\* the record was found: return
NotesGetReturn ==
    /\ threads.pc = "serving" /\ threads.reader = "looked" /\ threads.found
    /\ threads' = [threads EXCEPT !.reader = "returned"]
    /\ UNCHANGED <<notesVars, gen, sess, call, schema>>

NotesGetNext ==
    \/ \E k \in Workers : ReadRecord(k) \/ AppendItem(k) \/ WriteBack(k)
    \/ NotesGetLookup
    \/ NotesGetReset
    \/ NotesGetReturn

NotesGetSpec == NotesGetInit /\ [][NotesGetNext]_vars

\* the question and the turn the url holds before the requests arrive
PriorRecord ==
    [questions |-> << <<"q", "0">> >>, turns |-> << [role |-> txtUser, text |-> <<"q", "0">>] >>]

\* POST /notes/reset in flight next to the appends on a url with prior history:
\* resetter is the position of reset_notes
ResetRaceInit ==
    /\ NotesInit /\ gen = GenIdle /\ sess = SessIdle /\ call = CallIdle
    /\ schema = SchemaIdle
    /\ \E ops \in [Workers -> {"appendQuestion", "appendTurn"}] :
          threads = [pc |-> "serving",
                     store |-> [u \in {"u"} |-> 1],
                     heap |-> [r \in {1} |-> PriorRecord],
                     known |-> TRUE,
                     at |-> [k \in Workers |-> "called"],
                     op |-> ops,
                     rec |-> [k \in Workers |-> 0],
                     resetter |-> "called"]

\* rec = NotesRecord(url=url); _STORE[url] = rec; return rec
ResetStore ==
    /\ threads.pc = "serving" /\ threads.resetter = "called"
    /\ threads' = [threads EXCEPT !.resetter = "returned",
                                  !.heap = With(threads.heap, NewRef(threads.heap), NewObject),
                                  !.store = With(threads.store, "u", NewRef(threads.heap))]
    /\ UNCHANGED <<notesVars, gen, sess, call, schema>>

ResetRaceNext ==
    \/ \E k \in Workers : ReadRecord(k) \/ AppendItem(k) \/ WriteBack(k)
    \/ ResetStore

ResetRaceSpec == ResetRaceInit /\ [][ResetRaceNext]_vars

\* Two conversation_turn requests of app/main.py in SessionStore.append_turn on one
\* live session. state.turns is an attribute holding a reference to a list object:
\* append changes the object, the assignment of the slice rebinds the attribute, and
\* a thread switch can fall between any two of the steps below.

\* the turn request k appends
TurnOf(k) == [role |-> "user", text |-> Payload(k)]

\* the turns the session holds before the requests: n earlier turns
EarlierTurns(n) == [i \in 1..n |-> [role |-> "assistant", text |-> <<"t", ToString(i)>>]]

\* turns is the reference state.turns holds, lists the list objects; per request: its
\* position, the list it loaded for the append, and the slice it built
TurnRaceInit ==
    /\ NotesInit /\ gen = GenIdle /\ sess = SessIdle /\ call = CallIdle
    /\ schema = SchemaIdle
    /\ \E n \in 0..DefaultMaxTurns :
          threads = [pc |-> "turns", turns |-> 1,
                     lists |-> [r \in {1} |-> EarlierTurns(n)],
                     earlier |-> EarlierTurns(n),
                     at |-> [k \in Workers |-> "called"],
                     held |-> [k \in Workers |-> 0],
                     slice |-> [k \in Workers |-> <<>>]]

\* state.turns of line 35 is evaluated
LoadTurns(k) ==
    /\ threads.pc = "turns" /\ threads.at[k] = "called"
    /\ threads' = [threads EXCEPT !.at[k] = "loaded", !.held[k] = threads.turns]
    /\ UNCHANGED <<notesVars, gen, sess, call, schema>>

\* .append({"role": role, "text": text}) on the list that was loaded
ListAppend(k) ==
    /\ threads.pc = "turns" /\ threads.at[k] = "loaded"
    /\ threads' = [threads EXCEPT !.at[k] = "appended",
                                  !.lists[threads.held[k]] = Append(@, TurnOf(k))]
    /\ UNCHANGED <<notesVars, gen, sess, call, schema>>

\* if len(state.turns) > max_turns; otherwise return state
CheckLength(k) ==
    /\ threads.pc = "turns" /\ threads.at[k] = "appended"
    /\ threads' = [threads EXCEPT !.at[k] =
                      IF Len(threads.lists[threads.turns]) > DefaultMaxTurns
                      THEN "over" ELSE "returned"]
    /\ UNCHANGED <<notesVars, gen, sess, call, schema>>

\* state.turns[-max_turns:] is evaluated: a new list
SliceTurns(k) ==
    /\ threads.pc = "turns" /\ threads.at[k] = "over"
    /\ threads' = [threads EXCEPT !.at[k] = "sliced",
                                  !.slice[k] = LastSlice(threads.lists[threads.turns],
                                                         DefaultMaxTurns)]
    /\ UNCHANGED <<notesVars, gen, sess, call, schema>>

\* state.turns = (the slice); return state
AssignTurns(k) ==
    /\ threads.pc = "turns" /\ threads.at[k] = "sliced"
    /\ threads' = [threads EXCEPT !.at[k] = "returned",
                                  !.lists = With(@, NewRef(threads.lists), threads.slice[k]),
                                  !.turns = NewRef(threads.lists)]
    /\ UNCHANGED <<notesVars, gen, sess, call, schema>>

TurnRaceNext ==
    \E k \in Workers :
       LoadTurns(k) \/ ListAppend(k) \/ CheckLength(k) \/ SliceTurns(k) \/ AssignTurns(k)

TurnRaceSpec == TurnRaceInit /\ [][TurnRaceNext]_vars

------------------------------------------------------------------------------
(* Construction of the generation clients: _env and GeminiClient.__init__ *)

\* _env treating only the empty string as unset
Env_EmptyOnly(val, default) == IF val.none \/ val.s = <<>> THEN default ELSE val

\* _env(name, default): the default when the variable is unset or blank
Env(val, default) == IF val.none \/ Strip(val.s) = <<>> THEN default ELSE val

\* if api_key: / elif project:
Truthy(val) == ~val.none /\ val.s # <<>>

MissingConfig == [type |-> "RuntimeError", what |-> "Missing config"]

\* genai.Client(api_key=api_key)
KeyClient(api_key) == [vertexai |-> FALSE, api_key |-> api_key, project |-> NoText, location |-> NoText]

\* genai.Client(vertexai=True, project=project, location=location)
VertexClient(project, location) ==
    [vertexai |-> TRUE, api_key |-> NoText, project |-> project, location |-> location]

\* backend GeminiClient.__init__
GeminiClient_init(environ) ==
    LET model == Env(environ.GEMINI_MODEL, Text(DefaultModel))
        api_key == Env(environ.GOOGLE_API_KEY, NoText)
        project == Env(environ.GOOGLE_CLOUD_PROJECT, NoText)
        location == Env(environ.GOOGLE_CLOUD_LOCATION, Text(<<"us-central1">>))
    IN  IF Truthy(api_key)
        THEN Return([model |-> model, mode |-> "api_key", api_key |-> api_key,
                     client |-> KeyClient(api_key)])
        ELSE IF Truthy(project)
        THEN Return([model |-> model, mode |-> "vertex", api_key |-> NoText,
                     client |-> VertexClient(project, location)])
        ELSE Throw(MissingConfig)

\* app GeminiClient.__init__
AppGeminiClient_init(environ) ==
    LET model == Env(environ.GEMINI_MODEL, Text(DefaultModel))
        api_key == Env(environ.GOOGLE_API_KEY, NoText)
        project == Env(environ.GOOGLE_CLOUD_PROJECT, NoText)
        location == Env(environ.GOOGLE_CLOUD_LOCATION, Text(<<"us-central1">>))
    IN  IF Truthy(api_key) THEN Return([model |-> model, client |-> KeyClient(api_key)])
        ELSE IF Truthy(project)
        THEN Return([model |-> model, client |-> VertexClient(project, location)])
        ELSE Throw(MissingConfig)

\* values of an environment variable: unset, empty, whitespace, a value, a padded value
EnvValues ==
    { NoText, Text(<<>>), Text(<<" ">>), Text(<<"\t", "\n">>), Text(<<"k">>), Text(<<" ", "k", " ">>) }

Environs ==
    [GEMINI_MODEL : {NoText, Text(<<" ">>), Text(<<"gemini-2.0-", "flash">>)},
     GOOGLE_API_KEY : EnvValues, GOOGLE_CLOUD_PROJECT : EnvValues,
     GOOGLE_CLOUD_LOCATION : {NoText, Text(<<"europe-west1">>)}]

\* a process is about to construct its client
ConfigInit ==
    /\ NotesInit /\ gen = GenIdle /\ sess = SessIdle
    /\ schema = SchemaIdle /\ threads = ThreadsIdle
    /\ \E environ \in Environs : call = [pc |-> "called", input |-> environ]

\* the backend constructs GeminiClient()
BackendConstructs ==
    /\ call.pc = "called"
    /\ call' = [pc |-> "done", input |-> call.input, fn |-> "backend.GeminiClient",
                result |-> GeminiClient_init(call.input)]
    /\ UNCHANGED <<notesVars, gen, sess, schema, threads>>

\* the app constructs GeminiClient()
AppConstructs ==
    /\ call.pc = "called"
    /\ call' = [pc |-> "done", input |-> call.input, fn |-> "app.GeminiClient",
                result |-> AppGeminiClient_init(call.input)]
    /\ UNCHANGED <<notesVars, gen, sess, schema, threads>>

ConfigNext == BackendConstructs \/ AppConstructs

ConfigSpec == ConfigInit /\ [][ConfigNext]_vars

------------------------------------------------------------------------------
(* _pick_working_models_from_list on its own *)

\* entries of a model listing: capable and not, with and without the models/
\* prefix, with either keyword, both or none, padded, and without a name
ListedModels ==
    { [name |-> <<"models/", "gemini-2.0-", "flash">>, methods |-> {"generateContent", "countTokens"}],
      [name |-> <<"gemini-2.0-", "flash">>, methods |-> {"generateContent"}],
      [name |-> <<"models/", "gemini-2.5-", "pro">>, methods |-> {"generateContent"}],
      [name |-> <<" ", "models/", "flash", "-", "pro", " ">>, methods |-> {"generateContent"}],
      [name |-> <<"models/", "tuned-x">>, methods |-> {"generateContent"}],
      [name |-> <<"models/", "embedding-", "pro">>, methods |-> {"embedContent"}],
      [name |-> <<"models/">>, methods |-> {"generateContent"}] }

\* the listings of at most MaxListed entries
ListingsUpTo(n) == UNION { [1..k -> ListedModels] : k \in 0..n }

PickInit ==
    /\ NotesInit /\ gen = GenIdle /\ sess = SessIdle
    /\ schema = SchemaIdle /\ threads = ThreadsIdle
    /\ \E models \in ListingsUpTo(MaxListed) : call = [pc |-> "called", input |-> models]

\* _pick_working_models_from_list(models) returns
PickReturns ==
    /\ call.pc = "called"
    /\ call' = [pc |-> "done", input |-> call.input,
                result |-> Return(PickWorkingModels(call.input))]
    /\ UNCHANGED <<notesVars, gen, sess, schema, threads>>

PickNext == PickReturns

PickSpec == PickInit /\ [][PickNext]_vars

------------------------------------------------------------------------------
(* Notes Store properties, checked under Spec *)

Collections == {"questions", "turns", "qa", "quizzes"}

Items(rec) ==
    [questions |-> Fields(rec).questions, turns |-> Fields(rec).turns,
     qa |-> Fields(rec).qa, quizzes |-> Fields(rec).quizzes]

MemFields(u) == Fields(get_notes(mem, u))
DbFields(u) == Fields(PgGet(db, u))

IsPrefix(s, t) == Len(s) <= Len(t) /\ SubSeq(t, 1, Len(s)) = s

\* a step that is a Notes Store call (Tick is not)
IsCall == nops' = nops + 1

\* C1: while every append on a url since its last reset had a non-blank payload,
\* get(url) returns, on both backends and in each of the four collections, exactly
\* the appended items in call order.
C1_AppendsKeptInOrder ==
    \A u \in Urls :
        allNonBlank[u] =>
            /\ Items(get_notes(mem, u)) = appended[u]
            /\ Items(PgGet(db, u)) = appended[u]

C1_Witness ==
    /\ allNonBlank["u"]
    /\ Len(appended["u"].questions) = 2
    /\ appended["u"].questions[1] # appended["u"].questions[2]
    /\ Len(appended["u"].qa) = 1

\* C2: after every call that returns without error on both backends, the two
\* backends hold the same summary, questions, turns, qa and quizzes for every url.
C2_BackendsAgree ==
    (last.mem = "ok" /\ last.db = "ok") =>
        \A u \in Urls : MemFields(u) = DbFields(u)

\* C3: right after reset(url), get(url) returns a record with empty summary and
\* empty questions, turns, qa and quizzes, on both backends.
C3_ResetEmpties ==
    last.op = "reset" =>
        /\ get_notes(mem, last.url) # None
        /\ PgGet(db, last.url) # None
        /\ MemFields(last.url) = EmptyFields
        /\ DbFields(last.url) = EmptyFields

C3_Witness ==
    last.op = "reset" /\ last.memFound = "data" /\ last.dbFound = "data"

\* C4: appendQuestion with a blank question and appendTurn with blank text leave
\* the summary and the four collections of the url as they were; the ephemeral
\* backend returns normally, the durable one raises ValueError and writes nothing.
C4_BlankQuestionOrTurn ==
    [][(IsCall /\ last'.op \in {"appendQuestion", "appendTurn"} /\ last'.blank) =>
          /\ last'.mem = "ok"
          /\ Fields(get_notes(mem', last'.url)) = MemFields(last'.url)
          /\ last'.db = "ValueError"
          /\ db' = db]_vars

C4_Witness ==
    /\ last.op = "appendTurn" /\ last.blank
    /\ last.memFound = "data" /\ last.dbFound = "data"
    /\ last.db = "ValueError"

\* C5: on the durable backend appendQA with a blank question or answer and
\* appendQuiz with a blank question raise ValueError, and no qa or quiz entry
\* with a blank required field is ever stored.
C5_DurableRejectsBlankQA ==
    /\ (last.op \in {"appendQA", "appendQuiz"} /\ last.blank) => last.db = "ValueError"
    /\ \A u \in DOMAIN db :
        /\ \A i \in 1..Len(DbFields(u).qa) :
              ~IsBlank(DbFields(u).qa[i].q) /\ ~IsBlank(DbFields(u).qa[i].a)
        /\ \A i \in 1..Len(DbFields(u).quizzes) : ~IsBlank(DbFields(u).quizzes[i].question)

\* C6: every stored turn has role user or agent; appendTurn is rejected exactly
\* when its text is blank, whatever the role; and a role that is not user or agent
\* after trimming and lower-casing is stored as agent.
C6_RoleNormalised ==
    /\ \A u \in Urls :
          /\ \A i \in 1..Len(MemFields(u).turns) :
                MemFields(u).turns[i].role \in {txtUser, txtAgent}
          /\ \A i \in 1..Len(DbFields(u).turns) :
                DbFields(u).turns[i].role \in {txtUser, txtAgent}
    /\ last.op = "appendTurn" =>
          /\ last.mem = "ok"
          /\ last.db = "ValueError" <=> last.blank
          /\ (~last.blank /\ ~last.knownRole) =>
                LET mt == MemFields(last.url).turns
                    dt == DbFields(last.url).turns
                IN  /\ mt # <<>> /\ mt[Len(mt)].role = txtAgent
                    /\ dt # <<>> /\ dt[Len(dt)].role = txtAgent

C6_Witness ==
    /\ last.op = "appendTurn" /\ ~last.blank /\ ~last.knownRole
    /\ Len(MemFields("u").turns) = 2
    /\ MemFields("u").turns[1].role = txtUser

\* the field a call writes
Target(op) ==
    CASE op = "setSummary" -> "summary"
      [] op = "appendQuestion" -> "questions"
      [] op = "appendTurn" -> "turns"
      [] op = "appendQA" -> "qa"
      [] op = "appendQuiz" -> "quizzes"
      [] OTHER -> "none"

OthersEmpty(fields, op) ==
    \A f \in DOMAIN EmptyFields : f # Target(op) => fields[f] = <<>>

\* C7: a mutating call that returns without error on a url with no record leaves
\* get(url) returning a record whose fields other than the call's target are
\* empty; get creates no record.
C7_Upsert ==
    [][IsCall =>
          LET u == last'.url
          IN  /\ (last'.op # "get" /\ last'.mem = "ok" /\ u \notin DOMAIN mem) =>
                    /\ get_notes(mem', u) # None
                    /\ OthersEmpty(Fields(get_notes(mem', u)), last'.op)
              /\ (last'.op # "get" /\ last'.db = "ok" /\ u \notin DOMAIN db) =>
                    /\ PgGet(db', u) # None
                    /\ OthersEmpty(Fields(PgGet(db', u)), last'.op)
              /\ last'.op = "get" => (mem' = mem /\ db' = db)]_vars

C7_Witness ==
    /\ last.op = "setSummary" /\ last.memFound = "absent" /\ last.dbFound = "absent"
    /\ MemFields("u").summary # <<>> /\ DbFields("u").summary # <<>>

\* C8: in every step other than reset(url) the old value of each of questions,
\* turns, qa and quizzes is a prefix of the new one; reset(url) replaces all four
\* with the empty sequence.
C8_GrowOrReset ==
    [][IF IsCall
       THEN LET u == last'.url
                m0 == MemFields(u)
                m1 == Fields(get_notes(mem', u))
                d0 == DbFields(u)
                d1 == Fields(PgGet(db', u))
            IN  /\ IF last'.op = "reset"
                   THEN \A c \in Collections : m1[c] = <<>> /\ d1[c] = <<>>
                   ELSE \A c \in Collections :
                           IsPrefix(m0[c], m1[c]) /\ IsPrefix(d0[c], d1[c])
                /\ \A x \in Urls \ {u} :
                       /\ get_notes(mem', x) = get_notes(mem, x)
                       /\ PgGet(db', x) = PgGet(db, x)
       ELSE mem' = mem /\ db' = db]_vars

C8_Witness ==
    /\ last.op = "appendTurn" /\ last.db = "ok"
    /\ Len(MemFields("u").turns) = 2 /\ Len(DbFields("u").turns) = 2
    /\ Len(MemFields("u").questions) = 1

------------------------------------------------------------------------------
(* Generation client properties, checked under GenSpec *)

\* C9: when the first candidate failed with a model-unavailable error and a later
\* candidate's response carries a parsed object, generate_json returns that object
\* without raising, and that response is the last provider call of the run.
C9_FallbackReturnsParsed ==
    LET cs == gen.calls
    IN  \A k \in 2..Len(cs) :
            (/\ cs[1].ev = "generate" /\ cs[1].cls = "unavailable"
             /\ cs[1].model = gen.candidates[1]
             /\ cs[k].ev = "generate" /\ cs[k].cls = "parsed") =>
                /\ gen.pc = "done"
                /\ gen.result = Return([type |-> "dict", model |-> cs[k].model])
                /\ k = Len(cs)

C9_Witness ==
    /\ gen.pc = "done" /\ gen.client = "backend" /\ gen.mode = "api_key"
    /\ Len(gen.calls) = 3
    /\ gen.calls[1].cls = "unavailable"
    /\ gen.calls[2].ev = "list" /\ gen.calls[2].cls = "ok"
    /\ gen.calls[3].cls = "parsed" /\ gen.calls[3].model = gen.candidates[2]
    /\ gen.result.kind = "return"

\* C10: when a candidate attempt fails with an error that is not classified as
\* model-unavailable, generate_json raises that same error at once: the failed
\* attempt is the last provider call (no further candidate, no model listing).
C10_FatalErrorRaisedAtOnce ==
    LET cs == gen.calls
    IN  \A k \in 1..Len(cs) :
            (cs[k].ev = "generate" /\ cs[k].cls = "fatal") =>
                /\ gen.pc = "done"
                /\ gen.result = Throw(cs[k].err)
                /\ cs[k].err.model = cs[k].model
                /\ cs[k].err.msg \in ErrTexts
                /\ k = Len(cs)

C10_Witness ==
    /\ gen.pc = "done" /\ gen.client = "backend" /\ gen.mode = "api_key"
    /\ Len(gen.calls) = 3
    /\ gen.calls[1].cls = "unavailable" /\ gen.calls[2].ev = "list"
    /\ gen.calls[3].cls = "fatal"
    /\ gen.calls[3].err.msg = <<"429", "RESOURCE_EXHAUSTED", "quota", "exceeded">>
    /\ gen.i < Len(gen.candidates)
    /\ gen.result.kind = "raise"

\* the generate events of the history
Attempts(cs) == { k \in 1..Len(cs) : cs[k].ev = "generate" }

\* position in candidates of the last attempt of a call that went through the whole list:
\* the app client attempts every position, the backend client the first occurrence of a name
LastAttempted(g) ==
    IF g.client = "app" THEN Len(g.candidates)
    ELSE CHOOSE j \in 1..Len(g.candidates) :
            /\ \A k \in 1..(j - 1) : g.candidates[k] # g.candidates[j]
            /\ \A l \in (j + 1)..Len(g.candidates) :
                  \E k \in 1..(l - 1) : g.candidates[k] = g.candidates[l]

\* C11: when every attempted candidate, hardcoded or discovered, failed with a
\* model-unavailable error, generate_json raises the aggregate "all candidates failed"
\* error, and the error it carries is the one raised by the last attempt.
C11_AggregateCarriesLastError ==
    LET cs == gen.calls
    IN  (/\ gen.pc = "done"
         /\ Attempts(cs) # {}
         /\ \A k \in Attempts(cs) : cs[k].cls = "unavailable") =>
            /\ gen.result.kind = "raise"
            /\ gen.result.error.type = "RuntimeError"
            /\ gen.result.error.what = "All model candidates failed"
            /\ LET e == gen.result.error.last
                   j == LastAttempted(gen)
               IN  /\ e # None
                   /\ e.at = j
                   /\ e.model = gen.candidates[j]
                   /\ \A k \in Attempts(cs) :
                         (\A l \in Attempts(cs) : l <= k) => cs[k].model = e.model

C11_Witness ==
    /\ gen.pc = "done" /\ gen.client = "backend" /\ gen.mode = "api_key"
    /\ Len(gen.candidates) > Len(Candidates(gen.model))
    /\ \A k \in Attempts(gen.calls) : gen.calls[k].cls = "unavailable"
    /\ gen.result.kind = "raise"
    /\ gen.result.error.what = "All model candidates failed"
    /\ gen.result.error.last.at > Len(Candidates(gen.model))

\* C12: within one generate_json call the candidates are attempted in list order and
\* no model identifier is sent to the provider twice, whatever the configured model
\* (one equal to a hardcoded fallback included) and whatever the listing returns.
C12_AttemptedOnceInOrder ==
    LET cs == gen.calls
    IN  \A k, l \in Attempts(cs) :
            k < l =>
                /\ cs[k].model # cs[l].model
                /\ \E a, b \in 1..Len(gen.candidates) :
                      /\ a < b
                      /\ gen.candidates[a] = cs[k].model
                      /\ gen.candidates[b] = cs[l].model

\* C13: when a response arrives whose parsed value is absent or is no object,
\* generate_json raises an error carrying the text of the response cut to its first
\* 500 characters; the text is not parsed into a result and that response is the last
\* provider call of the run.
C13_UnparsedResponseFails ==
    LET cs == gen.calls
    IN  \A k \in Attempts(cs) :
            cs[k].cls = "unparsed" =>
                /\ gen.pc = "done" /\ k = Len(cs)
                /\ gen.resp.parsed.type # "dict"
                /\ gen.result.kind = "raise"
                /\ gen.result.error.type = "RuntimeError"
                /\ gen.result.error.what = "Model did not return parsed JSON"
                /\ LET raw  == gen.result.error.raw
                       text == Strip(TextOrEmpty(gen.resp))
                   IN  /\ Len(raw) <= 500
                       /\ IsPrefix(raw, text)
                       /\ Len(text) <= 500 => raw = text
                       /\ Len(text) > 500 => Len(raw) = 500

C13_Witness ==
    /\ gen.pc = "done" /\ gen.resp # None
    /\ gen.calls[Len(gen.calls)].cls = "unparsed"
    /\ gen.resp.parsed.type = "none"
    /\ Len(TextOrEmpty(gen.resp)) > 500
    /\ Len(gen.result.error.raw) = 500
    /\ gen.i < Len(gen.candidates)

\* the models sent to the provider so far
Attempted(cs) == { cs[k].model : k \in Attempts(cs) }

\* C14: in api_key mode every model-unavailable failure extends the candidates with
\* names of the listing that were not candidates yet, so that a call which read the
\* listing and ends in exhaustion has attempted every generation-capable model of the
\* listing before it fails; in vertex mode the listing endpoint is never queried.
C14_ListedModelsAttempted ==
    LET cs == gen.calls
    IN  /\ gen.mode = "vertex" => \A k \in 1..Len(cs) : cs[k].ev # "list"
        /\ (/\ gen.mode = "api_key" /\ gen.pc = "done"
            /\ gen.resp = None
            /\ \A k \in Attempts(cs) : cs[k].cls = "unavailable"
            /\ \E k \in 1..Len(cs) : cs[k].ev = "list" /\ cs[k].cls = "ok") =>
               \A i \in 1..Len(ListedNames(gen.listing)) :
                   ListedNames(gen.listing)[i] \in Attempted(cs)

------------------------------------------------------------------------------
(* Session Cache properties, checked under StoreSpec and TurnsSpec *)

\* a step that is a SessionStore call
IsStoreCall == sess'.stamp = sess.stamp + 1

\* the state stored under a live session id
Stored(s, session_id) == s.objs[s.data[session_id]]

\* C15: get_or_create on an id with no live entry creates and stores a state with
\* difficulty beginner, no page and no turns; on an id with a live entry it returns
\* the stored state, which stays the same object with the same fields.
C15_GetOrCreate ==
    [][(IsStoreCall /\ sess'.last.op = "get_or_create") =>
          LET sid == sess'.last.sid
          IN  /\ Live(sess', sid)
              /\ sess'.ret = sess'.data[sid]
              /\ IF Live(sess, sid)
                 THEN /\ sess'.data[sid] = sess.data[sid]
                      /\ Stored(sess', sid) = Stored(sess, sid)
                 ELSE Stored(sess', sid) =
                          [difficulty |-> "beginner", page |-> None, turns |-> <<>>]]_vars

C15_Witness ==
    /\ sess.last.op = "get_or_create" /\ ~sess.last.created
    /\ sess.objs[sess.ret].page = [summary |-> "p1"]
    /\ Len(sess.objs[sess.ret].turns) = 1

\* the last n entries of a sequence, oldest first
LastEntries(seq, n) ==
    IF n >= Len(seq) THEN seq ELSE SubSeq(seq, Len(seq) - n + 1, Len(seq))

\* C16: for every max_turns, the turns of the session after an append_turn call are
\* the last max_turns entries of the previous turns followed by the new turn, so
\* their number never exceeds max_turns.
C16_TurnsKeepLastMax ==
    [][(IsStoreCall /\ sess'.last.op = "append_turn") =>
          LET sid  == sess'.last.sid
              max  == sess'.last.arg.max_turns
              prev == IF Live(sess, sid) THEN Stored(sess, sid).turns ELSE <<>>
              now1 == Stored(sess', sid).turns
          IN  /\ now1 = LastEntries(Append(prev, sess'.last.arg.turn), max)
              /\ Len(now1) <= max]_vars

\* the session ids that were ever written
Known(s) == { k \in SessionIds : s.written[k] >= 0 }

\* C17: an entry expires ttl seconds after the last write to its session, set_page and
\* append_turn on an existing session counting as writes: a call on a session (of a
\* store that never had to evict for room) finds it replaced by a fresh state exactly
\* when ttl or more has passed since that last write.
C17_ExpiresAfterLastWrite ==
    [][\A sid \in SessionIds :
          (/\ IsStoreCall /\ sess'.last.sid = sid
           /\ sess.written[sid] >= 0
           /\ Cardinality(Known(sess)) <= sess.maxsize) =>
              (sess'.last.created <=> sess.time - sess.written[sid] >= sess.ttl)]_vars

\* the least recently used of the live session ids
LeastRecent(s) ==
    LET live == SelectSeq(s.recent, LAMBDA k : Live(s, k))
    IN  Head(live)

\* C18: the cache never holds more than maxsize live entries; a call that inserts a
\* new id when maxsize entries are live evicts exactly one of them, the least
\* recently used, and leaves the state of every other session as it was.
C18_BoundedLeastRecentEvicted ==
    [][IsStoreCall =>
          LET sid == sess'.last.sid
          IN  /\ Cardinality(LiveKeys(sess')) <= sess'.maxsize
              /\ (~Live(sess, sid) /\ Cardinality(LiveKeys(sess)) = sess.maxsize) =>
                    /\ LiveKeys(sess') = (LiveKeys(sess) \ {LeastRecent(sess)}) \cup {sid}
                    /\ \A k \in LiveKeys(sess) \ {LeastRecent(sess)} :
                          /\ sess'.data[k] = sess.data[k]
                          /\ Stored(sess', k) = Stored(sess, k)]_vars

C18_Witness ==
    /\ sess.maxsize = 2 /\ sess.last.created /\ sess.time = 0
    /\ Len(sess.recent) = 3
    /\ sess.recent[1] \notin DOMAIN sess.data
    /\ LiveKeys(sess) = {sess.recent[2], sess.recent[3]}
    /\ sess.data[sess.recent[2]] = 1
    /\ sess.objs[1].page = [summary |-> "p1"]

------------------------------------------------------------------------------
(* Handler properties, checked under AppSpec *)

\* C19: after a page analysis of a session succeeds, the state stored under its id has
\* no turns, the new analysis as its page, and the difficulty the session had before,
\* also when the entry expired or was evicted while the generation was in flight.
C19_AnalysisResetsTurnsOnly ==
    [][(IsStoreCall /\ sess'.last.op = "analyze_ok") =>
          LET sid == sess'.last.sid
              before == IF Live(sess, sid) THEN Stored(sess, sid)
                        ELSE sess.objs[sess'.last.held]
          IN  /\ Live(sess', sid)
              /\ Stored(sess', sid).turns = <<>>
              /\ Stored(sess', sid).page = sess'.last.arg
              /\ Stored(sess', sid).difficulty = before.difficulty]_vars

------------------------------------------------------------------------------
(* Read-path properties, checked under CoerceSpec *)

\* C20: _coerce_json_list always returns: a native list as it is, the decoded list
\* for a str or bytes value holding the text of a JSON array, and the empty list for
\* NULL, blank text, malformed JSON, undecodable bytes and JSON values that are no
\* array; _row_to_record hands these lists on.
C20_CoerceIsTotal ==
    call.pc = "done" =>
        /\ call.result.kind = "return"
        /\ call.input.about # "driver object" =>
              /\ call.fn = "_coerce_json_list" => call.result.value = call.input.want
              /\ call.fn = "_row_to_record" =>
                    /\ call.result.value.questions = call.input.want
                    /\ call.result.value.qa = <<>>

------------------------------------------------------------------------------
(* Schema properties, checked under SchemaSpec *)

\* every array column is jsonb and every row holds a JSON array in each
Healthy(tbl) ==
    /\ tbl.exists
    /\ \A c \in ArrayColumns :
          /\ tbl.types[c] = "jsonb"
          /\ \A k \in DOMAIN tbl.rows : tbl.rows[k][c].t = "array"

\* C21: a run of ensure_schema right after a run that succeeded succeeds and leaves
\* the table, its columns, their types and every row as they were.
C21_EnsureSchemaIdempotent ==
    [][(schema.pc = "db" /\ schema.result = "ok" /\ schema'.runs = schema.runs + 1)
         => (schema'.result = "ok" /\ schema'.table = schema.table)]_vars

C21_Witness ==
    /\ schema.pc = "db" /\ schema.runs = 2 /\ schema.result = "ok"
    /\ schema.first.exists /\ schema.first.rows # <<>>
    /\ schema.first.types["quizzes"] = "absent"
    /\ schema.first.rows[1]["qa"] = JNull
    /\ schema.first.rows[1]["turns"] = JObject
    /\ schema.table.rows[1]["questions"] = JArray(<< <<"q">> >>)

\* C22: from any prior shape of the notes table, ensure_schema completes without
\* error, and afterwards every array column is jsonb and holds a JSON array in
\* every row.
C22_EnsureSchemaHeals ==
    (schema.pc = "db" /\ schema.runs >= 1) => (schema.result = "ok" /\ Healthy(schema.table))

------------------------------------------------------------------------------
(* Notes Store properties, checked under TimedSpec *)

\* updated_at of every record of the store is at least what it was
NotDecreased(old, new) ==
    \A x \in DOMAIN old : x \in DOMAIN new /\ new[x].updated_at >= old[x].updated_at

\* C23: the clock never going back, a mutating call that returns without error
\* (on the ephemeral backend also an append with a blank payload) sets updatedAt
\* of its url to the clock value of the call; get changes no updatedAt; updatedAt
\* of a url never decreases.
C23_UpdatedAtIsCallTime ==
    [][/\ now' >= now
       /\ NotDecreased(mem, mem') /\ NotDecreased(db, db')
       /\ IsCall =>
            /\ last'.op = "get" => (mem' = mem /\ db' = db)
            /\ last'.op # "get" => get_notes(mem', last'.url).updated_at = now
            /\ (last'.op # "get" /\ last'.db = "ok") => PgGet(db', last'.url).updated_at = now
      ]_vars

C23_Witness ==
    /\ now = 1 /\ last.op = "appendQA" /\ last.blank /\ last.memFound = "data"
    /\ get_notes(mem, "u").updated_at = 1
    /\ PgGet(db, "u").updated_at = 1

------------------------------------------------------------------------------
(* Concurrency properties, checked under RaceSpec *)

\* what get_notes(url) returns of the collection: the items of the stored object
StoredItems(c) ==
    IF "u" \in DOMAIN threads.store THEN threads.heap[threads.store["u"]][c] ELSE <<>>

\* C24: when concurrent append_question / append_turn calls on one url of the
\* ephemeral backend have all returned, whatever the interleaving of their
\* read-record, append and write-back steps and whether or not the url had a
\* record, the item of each call is in get(url).
C24_ConcurrentAppendsKept ==
    (threads.pc = "serving" /\ \A k \in Workers : threads.at[k] = "returned") =>
        \A k \in Workers :
            \E i \in DOMAIN StoredItems(CollectionOf(threads.op[k])) :
                StoredItems(CollectionOf(threads.op[k]))[i] = ItemOf(threads.op[k], k)

------------------------------------------------------------------------------
(* Construction properties, checked under ConfigSpec *)

\* the variable is set to something that is not all whitespace
Configured(val) == ~val.none /\ \E i \in 1..Len(val.s) : val.s[i] \notin Whitespace

\* C25: constructing a generation client fails with the configuration error exactly
\* when neither a non-blank key nor a non-blank project is configured; with both
\* configured the client is built from the key; blank settings count as unset.
C25_ConstructionNeedsCredentials ==
    call.pc = "done" =>
        LET key == Configured(call.input.GOOGLE_API_KEY)
            project == Configured(call.input.GOOGLE_CLOUD_PROJECT)
        IN  /\ (call.result.kind = "raise") <=> (~key /\ ~project)
            /\ call.result.kind = "raise" => call.result.error = MissingConfig
            /\ key => call.result.value.client = KeyClient(call.input.GOOGLE_API_KEY)
            /\ (key /\ call.fn = "backend.GeminiClient") => call.result.value.mode = "api_key"
            /\ (~key /\ project) => call.result.value.client.vertexai
                                     /\ call.result.value.client.project = call.input.GOOGLE_CLOUD_PROJECT
            /\ (~key /\ project /\ call.fn = "backend.GeminiClient") =>
                  call.result.value.mode = "vertex"

C25_Witness ==
    /\ call.pc = "done" /\ call.fn = "app.GeminiClient"
    /\ call.input.GOOGLE_API_KEY = Text(<<"\t", "\n">>)
    /\ call.input.GOOGLE_CLOUD_PROJECT = Text(<<" ">>)
    /\ call.result.kind = "raise"

------------------------------------------------------------------------------
(* Properties of _pick_working_models_from_list, checked under PickSpec *)

\* the name of a listed model: trimmed, without a leading models/
NameOf(m) ==
    LET s == Strip(m.name)
    IN  IF s # <<>> /\ s[1] = "models/" THEN SubSeq(s, 2, Len(s)) ELSE s

\* the names the claim expects: of the models that advertise generateContent
WantedNames(models) ==
    { NameOf(models[i]) : i \in { j \in DOMAIN models : "generateContent" \in models[j].methods } }
        \ {<<>>}

\* 0 for a name with flash, 1 for another name with pro, 2 for the others
Rank(n) ==
    IF \E i \in DOMAIN n : n[i] = "flash" THEN 0
    ELSE IF \E i \in DOMAIN n : n[i] = "pro" THEN 1 ELSE 2

\* the first position of the name in the listing
FirstListed(models, n) ==
    CHOOSE i \in DOMAIN models :
        /\ NameOf(models[i]) = n /\ "generateContent" \in models[i].methods
        /\ \A j \in 1..(i - 1) :
              ~(NameOf(models[j]) = n /\ "generateContent" \in models[j].methods)

\* C26: _pick_working_models_from_list returns, without duplicates, exactly the
\* non-empty names (models/ removed) of the listed models that advertise
\* generateContent: those with flash, then the others with pro, then the rest,
\* each group in listing order.
C26_PickOrdersByKeyword ==
    call.pc = "done" =>
        LET r == call.result.value
            models == call.input
        IN  /\ call.result.kind = "return"
            /\ \A i, j \in DOMAIN r : i # j => r[i] # r[j]
            /\ { r[i] : i \in DOMAIN r } = WantedNames(models)
            /\ \A i, j \in DOMAIN r : i < j =>
                  \/ Rank(r[i]) < Rank(r[j])
                  \/ /\ Rank(r[i]) = Rank(r[j])
                     /\ FirstListed(models, r[i]) < FirstListed(models, r[j])

C26_Witness ==
    /\ call.pc = "done" /\ Len(call.input) = 3
    /\ call.result.value =
          << <<"flash", "-", "pro">>, <<"gemini-2.5-", "pro">>, <<"tuned-x">> >>
    /\ call.input[1].name = <<"models/", "tuned-x">>
    /\ call.input[2].name = <<"models/", "gemini-2.5-", "pro">>

------------------------------------------------------------------------------
(* Error classification and termination, checked under GenSpec and ListSpec *)

\* the text names a model that is unavailable, in the claim's words
NamesMissingModel(msg) ==
    /\ Contains(msg, <<"NOT_FOUND">>)
    /\ Contains(msg, <<"not", "found">>)
    /\ \E pat \in { <<"Publisher", "Model">>, <<"models/">>, <<"Call", "ListModels">> } :
          Contains(msg, pat)

\* a step in which generate_content raised
CallRaised == gen.pc = "loop" /\ gen'.last_err # gen.last_err

\* C27: when a generation call raises, the waterfall goes on to the next candidate
\* exactly when the error text contains NOT_FOUND, contains "not found" and contains
\* one of "Publisher Model", "models/", "Call ListModels"; any other error is
\* raised; the app and the backend client decide alike.
C27_RetryOnMissingModelOnly ==
    [][CallRaised => ((gen'.pc = "loop") <=> NamesMissingModel(gen'.last_err.msg))]_vars

------------------------------------------------------------------------------
(* Notes Store properties, checked under TwoUrlSpec *)

\* the fields of the records other than the one the call writes are as before
SameBut(old, new, op) ==
    \A f \in DOMAIN EmptyFields : f # Target(op) => Fields(new)[f] = Fields(old)[f]

\* C28: a call on one url leaves the record of every other url as it was, u and u/
\* being different urls; on its own url set_summary changes summary and updatedAt
\* only, and each append its own collection and updatedAt only.
C28_OtherUrlsAndFieldsKept ==
    [][IsCall =>
          LET u == last'.url
          IN  /\ \A x \in Urls \ {u} :
                    /\ get_notes(mem', x) = get_notes(mem, x)
                    /\ PgGet(db', x) = PgGet(db, x)
              /\ last'.op \notin {"reset", "get"} =>
                    /\ SameBut(get_notes(mem, u), get_notes(mem', u), last'.op)
                    /\ SameBut(PgGet(db, u), PgGet(db', u), last'.op)]_vars

C28_Witness ==
    /\ last.op = "setSummary" /\ last.url = "u/" /\ last.memFound = "data"
    /\ "u" \in DOMAIN mem /\ "u" \in DOMAIN db
    /\ MemFields("u").questions = <<<<"a">>>> /\ MemFields("u").summary = <<>>
    /\ DbFields("u").questions = <<<<"a">>>> /\ DbFields("u").summary = <<>>
    /\ MemFields("u/").summary # <<>> /\ MemFields("u/").questions # <<>>
    /\ DbFields("u/").summary # <<>> /\ DbFields("u/").questions # <<>>

\* the four initial candidates and the names one listing adds
MaxAttempts == Len(Candidates(DefaultModel)) + MaxExtra

\* C29: generate_json ends when every provider call returns or raises and the listing
\* is the same finite list each time, although candidates grows during the loop, and it
\* makes at most 4 + 10 generation calls.
C29_WaterfallTerminates ==
    /\ <>(gen.pc = "done")
    /\ [](Cardinality(Attempts(gen.calls)) <= MaxAttempts)

C29_Witness ==
    /\ gen.pc = "done"
    /\ Cardinality(Attempts(gen.calls)) = MaxAttempts
    /\ Len(gen.candidates) > MaxAttempts

------------------------------------------------------------------------------
(* Listing failures, checked under GenSpec *)

\* the listing calls of the history that raised
FailedListings(cs) == { k \in 1..Len(cs) : cs[k].ev = "list" /\ cs[k].cls = "failed" }

\* a step of the loop in which _list_models_api_key raised
ListingFailed ==
    /\ gen.pc = "loop" /\ gen.mode = "api_key"
    /\ Len(gen'.calls) > Len(gen.calls)
    /\ Len(gen'.calls) \in FailedListings(gen'.calls)

\* C30: in api_key mode a failure of the model-listing call is swallowed: the loop goes
\* on with the candidates that remain, and the error reported when they are exhausted
\* is the error of the last generation call, never the listing error.
C30_ListingFailureSwallowed ==
    /\ [][ListingFailed =>
             /\ gen'.pc = "loop" /\ gen'.result = gen.result
             /\ gen'.candidates = gen.candidates /\ gen'.i = gen.i + 1
             /\ gen'.last_err # ListingError]_vars
    /\ []((/\ gen.pc = "done" /\ gen.resp = None /\ gen.result.kind = "raise"
            /\ FailedListings(gen.calls) # {}
            /\ \A k \in Attempts(gen.calls) : gen.calls[k].cls = "unavailable") =>
              LET cs == gen.calls
                  a == CHOOSE k \in Attempts(cs) : \A l \in Attempts(cs) : l <= k
              IN  /\ gen.result = Throw([type |-> "RuntimeError",
                                         what |-> "All model candidates failed",
                                         last |-> gen.last_err])
                  /\ gen.last_err # ListingError
                  /\ gen.last_err.model = cs[a].model
                  /\ gen.last_err.msg \in ErrTexts)

C30_Witness ==
    /\ gen.pc = "done" /\ gen.client = "backend" /\ gen.mode = "api_key"
    /\ gen.model = DefaultModel
    /\ Cardinality(FailedListings(gen.calls)) = Len(Candidates(gen.model))
    /\ gen.candidates = Candidates(gen.model)
    /\ gen.result.kind = "raise"
    /\ gen.result.error.what = "All model candidates failed"
    /\ gen.result.error.last.at = Len(gen.candidates)
    /\ gen.result.error.last.model = gen.candidates[Len(gen.candidates)]

------------------------------------------------------------------------------
(* Conversation and analysis requests, checked under AppSpec *)

\* the state get_or_create gives the handler: the stored one, or a fresh one
StateBefore(sid) == IF Live(sess, sid) THEN Stored(sess, sid) ELSE FreshState

\* C31: a conversation turn on a session whose page is unset answers CLARIFY with the
\* session's difficulty, starts no generation call and leaves the turns, the
\* difficulty and the page of the session as they were.
C31_ClarifyWithoutPage ==
    [][(IsStoreCall /\ sess'.last.op \in {"clarify", "turn_start"}) =>
          LET sid == sess'.last.sid
          IN  (StateBefore(sid).page = None) =>
                 /\ sess'.last.op = "clarify"
                 /\ sess'.last.arg = StateBefore(sid).difficulty
                 /\ sess'.inflight = sess.inflight
                 /\ Live(sess', sid)
                 /\ Stored(sess', sid) = StateBefore(sid)]_vars

C31_Witness ==
    /\ sess.pc = "app" /\ sess.last.op = "clarify"
    /\ sess.last.arg = "beginner"
    /\ sess.inflight # {}
    /\ \E other \in AppSessionIds \ {sess.last.sid} :
          /\ Live(sess, other)
          /\ Stored(sess, other).page # None /\ Stored(sess, other).turns # <<>>

\* the requests a step answers
Answered == sess.inflight \ sess'.inflight

\* C32: when generation fails during a conversation turn on a session with a page, the
\* user turn appended before the call stays in the turns of the session, no assistant
\* turn is appended and difficulty and page are as before; when it succeeds, the
\* assistant turn is appended after the turns the handler saw and the difficulty of
\* the session becomes the difficulty of the response.
C32_TurnOutcome ==
    [][(IsStoreCall /\ \E r \in Answered : r.kind = "turn") =>
          LET sid == sess'.last.sid
              seen == sess.objs[sess'.last.held]
          IN  /\ sess'.last.op = "failed" =>
                    /\ Live(sess', sid) = Live(sess, sid)
                    /\ Live(sess, sid) => Stored(sess', sid) = Stored(sess, sid)
              /\ sess'.last.op = "turn_ok" =>
                    /\ Live(sess', sid)
                    /\ Stored(sess', sid).turns =
                          Append(seen.turns, [role |-> "assistant", text |-> "ok"])
                    /\ Stored(sess', sid).difficulty = sess'.last.arg
                    /\ Stored(sess', sid).page = seen.page]_vars

\* the state objects whose turns a step empties
Emptied ==
    { id \in DOMAIN sess.objs \cap DOMAIN sess'.objs :
         sess.objs[id].turns # <<>> /\ sess'.objs[id].turns = <<>> }

\* C33: a page analysis whose generation or validation fails leaves the page, the
\* turns and the difficulty of the session as they were before the request, the
\* entry of the session being created when it had none; turns are emptied by the
\* success path of page_analyze only.
C33_FailedAnalysisKeepsSession ==
    [][IsStoreCall =>
          LET sid == sess'.last.sid
          IN  /\ sess'.last.op = "analyze_start" =>
                    /\ Live(sess', sid)
                    /\ Stored(sess', sid) = StateBefore(sid)
              /\ (sess'.last.op = "failed" /\ \E r \in Answered : r.kind = "analyze") =>
                    /\ Live(sess', sid) = Live(sess, sid)
                    /\ Live(sess, sid) => Stored(sess', sid) = Stored(sess, sid)
              /\ Emptied # {} => sess'.last.op = "analyze_ok"]_vars

C33_Witness ==
    /\ sess.pc = "app" /\ sess.last.op = "failed"
    /\ sess.started = MaxRequests /\ sess.inflight = {}
    /\ Live(sess, sess.last.sid)
    /\ Stored(sess, sess.last.sid).page # None
    /\ Stored(sess, sess.last.sid).difficulty = "intermediate"
    /\ Stored(sess, sess.last.sid).turns =
          << [role |-> "user", text |-> "hi"], [role |-> "assistant", text |-> "ok"] >>

------------------------------------------------------------------------------
(* Reads next to appends, checked under NotesGetSpec *)

\* what get(url) of the store t holds in collection c
ItemsIn(t, c) == IF "u" \in DOMAIN t.store THEN t.heap[t.store["u"]][c] ELSE <<>>

\* the appends that returned and whose item is in the record
Kept(t) ==
    { k \in Workers : /\ t.at[k] = "returned"
                       /\ InSeq(ItemOf(t.op[k], k), ItemsIn(t, CollectionOf(t.op[k]))) }

\* C34: reading notes through GET /notes (get, then reset when no record was found)
\* removes no stored data: in every interleaving with appends on the url, the item of
\* an append that returned is in the record after the read as it was before.
C34_ReadKeepsAppends ==
    [][(threads'.reader # threads.reader) => Kept(threads) \subseteq Kept(threads')]_vars

------------------------------------------------------------------------------
(* Reset next to appends, checked under ResetRaceSpec *)

\* the appends that come after the reset in a serial order, in their order
Orders ==
    { o \in UNION { [1..n -> Workers] : n \in 0..MaxThreads } :
         \A i, j \in DOMAIN o : i # j => o[i] # o[j] }

\* the record a serial order leaves: the items of the appends after the reset
SerialRecord(o) ==
    LET qs == SelectSeq(o, LAMBDA k : threads.op[k] = "appendQuestion")
        ts == SelectSeq(o, LAMBDA k : threads.op[k] = "appendTurn")
    IN  [questions |-> [i \in 1..Len(qs) |-> ItemOf("appendQuestion", qs[i])],
         turns |-> [i \in 1..Len(ts) |-> ItemOf("appendTurn", ts[i])]]

\* C35: when a reset and appends on a url with prior history ran concurrently on the
\* ephemeral backend and all returned, the record is the one a serial order of the
\* calls leaves: the prior history is gone, and the record holds the items of the
\* appends ordered after the reset only.
C35_ResetSerializable ==
    (/\ threads.pc = "serving" /\ threads.resetter = "returned"
     /\ \A k \in Workers : threads.at[k] = "returned") =>
        \E o \in Orders : threads.heap[threads.store["u"]] = SerialRecord(o)

------------------------------------------------------------------------------
(* Data kept by ensure_schema, checked under SchemaSpec *)

\* the cell holds a JSON array: as a json or jsonb value, or as the text of one
HoldsArray(cell) ==
    \/ cell.t = "array"
    \/ cell.t = "text" /\ JsonLoads(cell.v[1]).ok /\ JsonLoads(cell.v[1]).v.t = "list"

\* the array the cell holds
ArrayOf(cell) ==
    IF cell.t = "array" THEN PyList([i \in 1..Len(cell.v) |-> PyStr(cell.v[i])])
    ELSE JsonLoads(cell.v[1]).v

\* C36: ensure_schema keeps valid data: a cell of questions, turns, qa or quizzes that
\* holds a JSON array, in a jsonb, json or text column, holds the same array after the
\* run, and url, summary and the set of rows are as before.
C36_EnsureSchemaKeepsArrays ==
    [][(schema.pc = "db" /\ schema'.runs = schema.runs + 1) =>
          LET old == schema.table.rows
              new == schema'.table.rows
          IN  /\ DOMAIN new = DOMAIN old
              /\ \A k \in DOMAIN old :
                    /\ new[k]["url"] = old[k]["url"]
                    /\ new[k]["summary"] = old[k]["summary"]
                    /\ \A c \in ArrayColumns :
                          HoldsArray(old[k][c]) =>
                             /\ HoldsArray(new[k][c])
                             /\ ArrayOf(new[k][c]) = ArrayOf(old[k][c])]_vars

C36_Witness ==
    /\ schema.pc = "db" /\ schema.runs = 1 /\ schema.result = "ok"
    /\ schema.first.exists /\ schema.first.rows # <<>>
    /\ schema.first.rows[1]["questions"] = JArray(<< <<"q">> >>)
    /\ schema.first.rows[1]["turns"] = JObject
    /\ schema.first.rows[1]["summary"] = SqlText(<<"s">>)
    /\ schema.table.rows[1]["questions"] = JArray(<< <<"q">> >>)
    /\ schema.table.rows[1]["turns"] = JArray(<<>>)
    /\ schema.table.rows[1]["summary"] = SqlText(<<"s">>)

------------------------------------------------------------------------------
(* Concurrent append_turn calls, checked under TurnRaceSpec *)

\* the turns of the session
SessionTurns == threads.lists[threads.turns]

==============================================================================
